---- MODULE Spec2Model ----
(***************************************************************************)
(* Fair-value-gap trading bot (src/helper.py, src/main.py): the persisted  *)
(* store (FairValueGaps, RetestGap, Trades, TradeStatus) and the four      *)
(* pipeline stages that mutate it.                                         *)
(*                                                                         *)
(* Units.  Prices are integers in cents (the code rounds prices to two     *)
(* decimals).  Percentages (GapSize, DistanceFromVWAP) are integers in     *)
(* hundredths of a percent (the code rounds them to two decimals).  Times  *)
(* are integers in minutes.  A row's Id is its index in the table's        *)
(* sequence (AUTOINCREMENT, rows are never deleted).  SQL NULL is the      *)
(* empty sequence; a non-NULL ExitPrice is the exact fraction <<num, den>> *)
(* and a non-NULL Pnl is <<cents>>. The code holds prices in IEEE-754      *)
(* doubles: a price of c cents stands for the double nearest to c/100, an  *)
(* ExitPrice or Pnl for the double the code computed for it. round(x, 2)   *)
(* is computed on the exact value where that decides the result, and on    *)
(* the doubles of the code where the exact value lies halfway between two  *)
(* results. LastModifiedDate and EntryTime (wall-clock text, never read    *)
(* back) are left out.                                                     *)
(***************************************************************************)
EXTENDS Integers, Sequences, FiniteSets, TLC

\* ---------------------------------------------------------------- bounds
MaxGaps == 2          \* rows the FairValueGaps table may grow to
MaxSeries == 4        \* longest 5m candle series handed to update_fvg_table
MaxTime == 3          \* last minute of the wall clock
MaxBotTime == 2       \* last minute of the wall clock while run_bot's loop runs
MaxFetches == 2       \* requests for df_1m answered within one minute
MaxSymbolsTime == 2   \* last minute of the wall clock while two symbols are tracked

\* ------------------------------------------------------ program constants
TimeFrame5m == 5         \* timeframe="5m", minutes
Lot == 200               \* Lot, RemainingLot, Quantity of a new trade
MinGapSize == 2          \* gap_size >= 0.02 (hundredths of a percent)
TolDen == 100000         \* denominator of the 0.0000x tolerance factors
RetestTolEnd == 3        \* fvg_end + fvg_end*0.00003
RetestTolStart == 5      \* fvg_start - fvg_start*0.00005
SlBuffer == 5            \* fvg_start*0.00005, fvg_end*0.00005
TargetMult == 2          \* initial_target: 2 * stoploss_points
ModTargetMult == 3       \* modified_target: 3 * stoploss_points
PctScale == 10000        \* x*100 rounded to 2 decimals, in hundredths

BotSymbol == "BTCUSD"
NULL == << >>

\* ------------------------------------------------------------ input sets
\* Price levels in cents.
\* A band is <<Low, High>>.
Bands5m == { <<39000, 40000>>, <<42400, 44000>> }

\* 1m candle shapes <<Low, High, Close>>: three candles around the gap
\* between the 5m bands, a candle that stops two cents short of the gap from
\* below, and single-price candles far below and above it (the stop and
\* target levels of the trades the others can open).
Shapes1m ==
    { <<42400, 44000, 42400>>, <<44000, 44200, 44200>>, <<40000, 42400, 40000>>,
      <<39998, 39998, 39998>>,
      <<32000, 32000, 32000>>, <<35000, 35000, 35000>>,
      <<52700, 52700, 52700>>, <<57000, 57000, 57000>> }

Candle(t, o, h, l, c, v) ==
    [OpenTime |-> t, Open |-> o, High |-> h, Low |-> l, Close |-> c, Volume |-> v]

\* 5m candle shapes (OpenTime is set when the series is laid out in time):
\* a band and a close.
Shape(b, c) == Candle(0, b[1], b[2], b[1], c, 1)

\* A trend: m candles of band b1 followed by candles of band b2, n in all,
\* each closing at its band's low.
Trend(b1, b2, m, n) ==
    [i \in 1..n |-> IF i <= m THEN Shape(b1, b1[1]) ELSE Shape(b2, b2[1])]

Trends5m ==
    { Trend(b1, b2, m, n) : b1 \in Bands5m, b2 \in Bands5m, m \in 2..MaxSeries, n \in 3..MaxSeries }

\* A lone latest candle, closing at either end of its band.
Latest5m == UNION { { << Shape(b, c) >> : c \in {b[1], b[2]} } : b \in Bands5m }

\* The feed returns consecutive candles (fetch_delta_ohlc sorts by OpenTime
\* and drops duplicates).  The series modelled are those fetched at the start
\* of a 5-minute slot before the exchange lists the slot's own candle: the
\* last row is the candle that has just closed.
LastOpen5m(t) == TimeFrame5m * (t \div TimeFrame5m) - TimeFrame5m

LayOut(shapes, t) ==
    [i \in 1..Len(shapes) |->
        [shapes[i] EXCEPT !.OpenTime = LastOpen5m(t) - TimeFrame5m * (Len(shapes) - i)]]

Series5m(t) == { LayOut(s, t) : s \in Trends5m \cup Latest5m }

\* The 1m frame handed to the three 1m stages: empty, or ending with the
\* candle of the current minute (only the last row is ever read).
Candles1m(t) == { Candle(t, x[1], x[2], x[1], x[3], 1) : x \in Shapes1m }

Frames1m(t) == { << >> } \cup { <<c>> : c \in Candles1m(t) }

\* The exchange lists the candle of the minute while it forms: a request made
\* later in the minute returns the candle with the same OpenTime and Open, a
\* High no lower, a Low no higher, a Volume no smaller and the Close of the
\* moment.  Forming1m holds a later sight of the first shape of Shapes1m,
\* closing above the High seen before.
Forming1m == { <<42400, 44200, 44200>> }

Observed1m(t) ==
    Candles1m(t) \cup { Candle(t, x[1], x[2], x[1], x[3], 2) : x \in Forming1m }

SeenLater(c, d) ==
    /\ d.OpenTime = c.OpenTime
    /\ d.Open = c.Open
    /\ d.High >= c.High
    /\ d.Low <= c.Low
    /\ d.Volume >= c.Volume

\* The frames a request made in minute t can return when the frame fetched
\* before it was `held`.
Fetched1m(t, held) ==
    { << >> } \cup
    { <<d>> : d \in { x \in Observed1m(t) :
                        ( held # << >> /\ held[Len(held)].OpenTime = t )
                            => SeenLater(held[Len(held)], x) } }

\* -------------------------------------------------------------- numerics
\* round(x, 2) of the code, as the integer base + (the integer nearest to
\* n/d), for integers n and d > 0.  The code's double dbl is the result
\* when n/d lies exactly halfway between two integers, and when the exact
\* computation does not fit TLC's integers (fits is false).  Away from a
\* tie the double rounds as the exact value does: n is below 2^31, so n/d is
\* at least 1/(2d) from a tie, far more than the error of a few operations
\* on doubles.
Nearest(fits, base, n, d, dbl) ==
    IF ~ fits THEN dbl
    ELSE IF n % d < d - (n % d) THEN base + (n \div d)
    ELSE IF n % d > d - (n % d) THEN base + (n \div d) + 1
    ELSE dbl

\* The largest integer of TLC, and the largest whose product with PctScale
\* stays within it.
MaxInt == 2147483647
MaxExact == MaxInt \div PctScale

Abs(n) == IF n < 0 THEN - n ELSE n

\* ------------------------------------------------- binary floating point
\* The code computes in IEEE-754 doubles.  A natural number of any size is
\* held as its digits in base Limb, least significant first and without
\* leading zeros (TLC's integers have 32 bits); a double is [s, m, e] with
\* value (-1)^s * m * 2^e, m a natural of at most 53 significant bits.
LimbBits == 14
Limb == 16384

\* 2^k for 0 <= k <= LimbBits.
Pow2(k) ==
    << 1, 2, 4, 8, 16, 32, 64, 128, 256, 512, 1024, 2048, 4096, 8192, 16384 >>[k + 1]

\* The number of bits of a digit n.
BitLen(n) == CHOOSE k \in 0..LimbBits : (k = 0 \/ Pow2(k - 1) <= n) /\ n < Pow2(k)

RECURSIVE LTrim(_)
LTrim(a) ==
    IF a = << >> THEN << >>
    ELSE IF a[Len(a)] = 0 THEN LTrim(SubSeq(a, 1, Len(a) - 1))
    ELSE a

RECURSIVE LFromInt(_)
LFromInt(n) == IF n = 0 THEN << >> ELSE << n % Limb >> \o LFromInt(n \div Limb)

RECURSIVE LToInt(_)
LToInt(a) == IF a = << >> THEN 0 ELSE a[1] + Limb * LToInt(Tail(a))

LBitLen(a) == IF a = << >> THEN 0 ELSE LimbBits * (Len(a) - 1) + BitLen(a[Len(a)])

\* Bit j of a is set; some bit of a below bit j is set.
LBit(a, j) ==
    j \div LimbBits < Len(a) /\ (a[j \div LimbBits + 1] \div Pow2(j % LimbBits)) % 2 = 1

LLow(a, j) ==
    \E i \in 1..Len(a) :
        \/ i <= j \div LimbBits /\ a[i] # 0
        \/ i = j \div LimbBits + 1 /\ a[i] % Pow2(j % LimbBits) # 0

\* Digit i of a, 0 beyond its ends.
LAt(a, i) == IF i >= 1 /\ i <= Len(a) THEN a[i] ELSE 0

\* The digits from digit i on of a + b, c carried into digit i.
RECURSIVE LAddC(_, _, _, _)
LAddC(a, b, i, c) ==
    IF i > Len(a) /\ i > Len(b) THEN (IF c = 0 THEN << >> ELSE << c >>)
    ELSE << (LAt(a, i) + LAt(b, i) + c) % Limb >>
         \o LAddC(a, b, i + 1, (LAt(a, i) + LAt(b, i) + c) \div Limb)

LAdd(a, b) == LAddC(a, b, 1, 0)

\* The digits from digit i on of a - b for a >= b, c borrowed from digit i.
RECURSIVE LSubC(_, _, _, _)
LSubC(a, b, i, c) ==
    IF i > Len(a) THEN << >>
    ELSE << (a[i] - LAt(b, i) - c) % Limb >>
         \o LSubC(a, b, i + 1, IF a[i] - LAt(b, i) - c < 0 THEN 1 ELSE 0)

LSub(a, b) == LTrim(LSubC(a, b, 1, 0))

\* -1, 0, 1 as a < b, a = b, a > b.
RECURSIVE LCmpAt(_, _, _)
LCmpAt(a, b, i) ==
    IF i = 0 THEN 0
    ELSE IF a[i] > b[i] THEN 1
    ELSE IF a[i] < b[i] THEN -1
    ELSE LCmpAt(a, b, i - 1)

LCmp(a, b) ==
    IF Len(a) > Len(b) THEN 1
    ELSE IF Len(a) < Len(b) THEN -1
    ELSE LCmpAt(a, b, Len(a))

\* a * k + c for 0 <= k, c < Limb.
RECURSIVE LMulSmallC(_, _, _)
LMulSmallC(a, k, c) ==
    IF a = << >> THEN (IF c = 0 THEN << >> ELSE << c >>)
    ELSE << (a[1] * k + c) % Limb >> \o LMulSmallC(Tail(a), k, (a[1] * k + c) \div Limb)

LMulSmall(a, k) == IF k = 0 THEN << >> ELSE LMulSmallC(a, k, 0)

LShiftLimbs(a, n) == IF a = << >> THEN << >> ELSE [i \in 1..n |-> 0] \o a

RECURSIVE LMul(_, _)
LMul(a, b) ==
    IF a = << >> \/ b = << >> THEN << >>
    ELSE LAdd(LMulSmall(a, b[1]), LShiftLimbs(LMul(a, Tail(b)), 1))

\* a * 2^k: each digit takes the low bits of one digit of a and the high
\* bits of the digit below it.
LShl(a, k) ==
    LET n == k \div LimbBits
        s == k % LimbBits
    IN  LTrim([j \in 1..(Len(a) + n + 1) |->
                  (LAt(a, j - n) % Pow2(LimbBits - s)) * Pow2(s)
                + (LAt(a, j - n - 1) \div Pow2(LimbBits - s))])

\* a \div 2^k.
LShr(a, k) ==
    LET n == k \div LimbBits
        s == k % LimbBits
    IN  LTrim([j \in 1..(Len(a) - n) |->
                  (LAt(a, j + n) \div Pow2(s))
                + (LAt(a, j + n + 1) % Pow2(s)) * Pow2(LimbBits - s)])

\* The integer nearest to a / 2^k (plus a nonzero amount below the last
\* bit of a when sticky), a tie going to the even one; a itself for k <= 0.
LRoundShr(a, k, sticky) ==
    IF k <= 0 THEN a
    ELSE LAdd(LShr(a, k),
              IF LBit(a, k - 1) /\ (sticky \/ LLow(a, k - 1) \/ LBit(a, k))
              THEN << 1 >> ELSE << >>)

\* The digit cur \div d for cur < d * Limb and a divisor d whose leading
\* digit is Limb/2 or more: the quotient of the two leading digits of cur
\* by the leading digit of d is that digit or exceeds it by at most 2.
LDigit(cur, d) ==
    LET top == LAt(cur, Len(d) + 1) * Limb + LAt(cur, Len(d))
        est == IF top \div d[Len(d)] >= Limb THEN Limb - 1 ELSE top \div d[Len(d)]
    IN  CHOOSE q \in (est - 2)..est :
            /\ q >= 0
            /\ LCmp(LMulSmall(d, q), cur) <= 0
            /\ (q = est \/ LCmp(LMulSmall(d, q + 1), cur) > 0)

\* Long division by d (leading digit Limb/2 or more), from the most
\* significant digit of a down: qs holds the digits of the quotient above
\* digit i of a (leading zeros included) and r what they left over.
\* <<quotient, remainder>>.
RECURSIVE LDivFrom(_, _, _, _, _)
LDivFrom(a, d, i, qs, r) ==
    CASE i = 0 -> << LTrim(qs), r >>
      [] i > 0 /\ r = << >> /\ a[i] = 0 -> LDivFrom(a, d, i - 1, << 0 >> \o qs, << >>)
      [] OTHER ->
            LET cur == << a[i] >> \o r
                q == LDigit(cur, d)
            IN  LDivFrom(a, d, i - 1, << q >> \o qs, LSub(cur, LMulSmall(d, q)))

LDivMod(a, d) == LDivFrom(a, d, Len(a), << >>, << >>)

\* Round to nearest, ties to even, of the value n * 2^e (plus a nonzero
\* amount below the last bit of n when sticky) to 53 significant bits.
FRound(s, n, e, sticky) ==
    IF n = << >> THEN [s |-> s, m |-> << >>, e |-> 0]
    ELSE LET k == LBitLen(n) - 53
         IN  [s |-> s, m |-> LRoundShr(n, k, sticky), e |-> IF k <= 0 THEN e ELSE e + k]

FInt(n) == [s |-> IF n < 0 THEN 1 ELSE 0, m |-> LFromInt(IF n < 0 THEN -n ELSE n), e |-> 0]

FNeg(x) == [x EXCEPT !.s = 1 - @]

FMul(x, y) ==
    IF x.m = << >> \/ y.m = << >> THEN [s |-> (x.s + y.s) % 2, m |-> << >>, e |-> 0]
    ELSE FRound((x.s + y.s) % 2, LMul(x.m, y.m), x.e + y.e, FALSE)

\* The quotient carries 55 bits or more, and qr[2] is what the division
\* left over.
FDivAt(s, e, qr) == FRound(s, qr[1], e, qr[2] # << >>)

\* x.m * 2^shift is divided by y.m, both times 2^norm, which brings the
\* leading digit of the divisor to Limb/2 or more.
FDiv(x, y) ==
    IF x.m = << >> THEN [s |-> (x.s + y.s) % 2, m |-> << >>, e |-> 0]
    ELSE LET shift == 56 + LBitLen(y.m) - LBitLen(x.m)
             norm == LimbBits - BitLen(y.m[Len(y.m)])
         IN  FDivAt((x.s + y.s) % 2, x.e - y.e - shift,
                    LDivMod(LShl(x.m, shift + norm), LShl(y.m, norm)))

\* (-1)^sx * a * 2^e + (-1)^sy * b * 2^e.
FAddAt(sx, a, sy, b, e) ==
    FRound(IF sx = sy \/ LCmp(a, b) >= 0 THEN sx ELSE sy,
           IF sx = sy THEN LAdd(a, b)
           ELSE IF LCmp(a, b) >= 0 THEN LSub(a, b)
           ELSE LSub(b, a),
           e, FALSE)

FAdd(x, y) ==
    IF x.m = << >> THEN y
    ELSE IF y.m = << >> THEN x
    ELSE LET e == IF x.e < y.e THEN x.e ELSE y.e
         IN  FAddAt(x.s, LShl(x.m, x.e - e), y.s, LShl(y.m, y.e - e), e)

FSub(x, y) == FAdd(x, FNeg(y))

\* round(x, 2) of a Python float (float.__round__), times 100: the integer
\* nearest to 100 * x, an exact tie of the double going to the even one.
FRound2(x) ==
    (IF x.s = 1 THEN -1 ELSE 1) *
        LToInt(IF x.e >= 0 THEN LShl(LMulSmall(x.m, 100), x.e)
               ELSE LRoundShr(LMulSmall(x.m, 100), - x.e, FALSE))

\* The double of a price given in cents, and of the literals 100, 3 and
\* 0.00005.
FPrice(c) == FDiv(FInt(c), FInt(100))
F100 == FInt(100)

\* rint: the integer nearest to the double x, a tie going to the even one.
FRint(x) ==
    (IF x.s = 1 THEN -1 ELSE 1) *
        LToInt(IF x.e >= 0 THEN LShl(x.m, x.e) ELSE LRoundShr(x.m, - x.e, FALSE))

\* round(x, 2) of a numpy.float64 (a value read from a row of the frame),
\* times 100: numpy multiplies by 100 in doubles and takes rint of the
\* product (and divides by 100 again).
FNpRound2(x) == FRint(FMul(x, F100))
F3 == FInt(3)
FBuffer == FDiv(FInt(SlBuffer), FInt(TolDen))

\* ------------------------------------------------------------------ state
VARIABLES
    gaps,       \* table FairValueGaps
    retests,    \* table RetestGap
    trades,     \* table Trades
    tstatus,    \* table TradeStatus
    tables,     \* names of the tables the database file holds
    now,        \* wall clock, minutes
    feed_1m,    \* df_1m: the 1m frame last fetched, which the 1m stages are given
    cycle       \* where run_bot stands in its loop body (Idle outside the loop)

db == <<gaps, retests, trades, tstatus>>
vars == <<gaps, retests, trades, tstatus, tables, now, feed_1m, cycle>>

\* main.py creates table FairValueGaps before anything else runs; the other
\* tables are created by the stages (CREATE TABLE IF NOT EXISTS, which no
\* transaction holds back).
AtStartup == { "FairValueGaps" }

\* run_bot's position: the statement to run next (pc); the minute and the
\* second of the clock read that opens the loop body (minute: current_minute
\* counted on the model's clock; early: current_second < 5); whether the body
\* is the first of its minute or the one of a process started again within
\* the minute (pass); the 5m series update_fvg_table fetched (ohlc); the
\* store as the first pass left it (first); whether the second pass has been
\* given the frames of the first (same); and the numbers of RetestGap and
\* Trades rows at the time df_1m was fetched (seen).  Outside the loop pc
\* tells how the last call of a stage ended: "idle" when it returned (or
\* none was made), "raised" when a statement raised an exception; and
\* fetches counts the frames df_1m has held in the minute `now` (inside the
\* loop pass tells the bodies of a minute apart).
Idle ==
    [pc |-> "idle", pass |-> 0, ohlc |-> << >>, first |-> << >>, early |-> TRUE,
     minute |-> 0, same |-> TRUE, seen |-> <<0, 0>>, fetches |-> 1]

CycleStart(early, minute) ==
    [pc |-> "fvg", pass |-> 1, ohlc |-> << >>, first |-> << >>, early |-> early,
     minute |-> minute, same |-> TRUE, seen |-> <<0, 0>>, fetches |-> 1]

\* How a call made outside the loop ended (df_1m stays as fetched).
Outcome(raises) ==
    [Idle EXCEPT !.pc = IF raises THEN "raised" ELSE "idle", !.fetches = cycle.fetches]

Init ==
    /\ gaps = << >>
    /\ retests = << >>
    /\ trades = << >>
    /\ tstatus = << >>
    /\ tables = AtStartup
    /\ now = 0
    /\ feed_1m \in Frames1m(0)
    /\ cycle = Idle

\* ------------------------------------------------------------- add_vwap
RECURSIVE CumVP(_, _)
CumVP(df, i) ==
    IF i = 0 THEN 0
    ELSE CumVP(df, i - 1) + (df[i].High + df[i].Low + df[i].Close) * df[i].Volume

RECURSIVE CumVol(_, _)
CumVol(df, i) == IF i = 0 THEN 0 ELSE CumVol(df, i - 1) + df[i].Volume

\* VWAP of row i is the exact fraction <<num, den>>:
\* cumsum(typical_price * Volume) / cumsum(Volume), typical = (H+L+C)/3.
add_vwap(df) ==
    [i \in 1..Len(df) |->
        [OpenTime |-> df[i].OpenTime, Open |-> df[i].Open, High |-> df[i].High,
         Low |-> df[i].Low, Close |-> df[i].Close, Volume |-> df[i].Volume,
         VWAP |-> <<CumVP(df, i), 3 * CumVol(df, i)>>]]

\* The doubles of add_vwap: typical_price * Volume of row j, and the VWAP
\* of row i (the cumsum of the former up to row i, by that of Volume).
FVolPrice(df, j) ==
    FMul(FDiv(FAdd(FAdd(FPrice(df[j].High), FPrice(df[j].Low)), FPrice(df[j].Close)), F3),
         FInt(df[j].Volume))

\* cumsum on the doubles vp, added in row order: its last entry.
RECURSIVE FCumSum(_)
FCumSum(vp) ==
    IF vp = << >> THEN FInt(0)
    ELSE FAdd(FCumSum(SubSeq(vp, 1, Len(vp) - 1)), vp[Len(vp)])

FVwap(df, i) ==
    FDiv(FCumSum([j \in 1..i |-> FVolPrice(df, j)]), FInt(CumVol(df, i)))

\* (a - b) / c * 100 on the numpy.float64 of the frame, rounded to 2
\* decimals.
FPct(a, b, c) == FNpRound2(FMul(FDiv(FSub(a, b), c), F100))

\* (x - vwap) / vwap * 100 on the numpy.float64 of the frame, rounded to 2
\* decimals.
FPctFrom(x, vwap) == FPct(x, vwap, vwap)

\* round((x - VWAP)/VWAP*100, 2) for the VWAP of row i of df, in hundredths
\* of a percent.
DistanceFromVWAP(x, df, i) ==
    LET vwap == df[i].VWAP
    IN  Nearest(x <= MaxInt \div vwap[2] /\ Abs(x * vwap[2] - vwap[1]) <= MaxExact,
                0, (x * vwap[2] - vwap[1]) * PctScale, vwap[1],
                FPctFrom(FPrice(x), FVwap(df, i)))

\* round((hi - lo)/ref*100, 2), in hundredths of a percent.
GapSizePct(lo, hi, ref) ==
    Nearest(hi - lo <= MaxExact, 0, (hi - lo) * PctScale, ref,
            FPct(FPrice(hi), FPrice(lo), FPrice(ref)))

\* ------------------------------------------------------ update_fvg_table
NewFvg(symbol, tf, df, i, start, end, dir, size, near) ==
    [Symbol |-> symbol, ActiveTime |-> df[i].OpenTime + tf,
     FVGStart |-> start, FVGEnd |-> end, Direction |-> dir, TimeFrame |-> tf,
     Duration |-> 0, GapSize |-> size,
     DistanceFromVWAP |-> DistanceFromVWAP(near, df, i),
     IsActive |-> 1, IsRetested |-> 0]

\* The end of the loop body: a gap of MIN_GAP_SIZE_PERCENT or more is
\* appended to new_fvgs.
AppendIfWide(symbol, tf, df, i, start, end, dir, gap_size, near) ==
    IF gap_size >= MinGapSize
    THEN << NewFvg(symbol, tf, df, i, start, end, dir, gap_size, near) >>
    ELSE << >>

\* Variant of the loop body that takes the candle before curr (prev1) as the
\* first candle of the triple.
DetectAtFromPrev1(df, i, symbol, tf) ==
    LET prev2 == df[i - 1]
        curr == df[i]
    IN  IF prev2.High < curr.Low
        THEN AppendIfWide(symbol, tf, df, i, prev2.High, curr.Low, "Bullish",
                          GapSizePct(prev2.High, curr.Low, prev2.High), curr.Low)
        ELSE IF prev2.Low > curr.High
        THEN AppendIfWide(symbol, tf, df, i, curr.High, prev2.Low, "Bearish",
                          GapSizePct(curr.High, prev2.Low, curr.High), curr.High)
        ELSE << >>

\* One pass of the detection loop body at row i (1-based, i >= 3): the
\* gaps it appends to new_fvgs.
DetectAt(df, i, symbol, tf) ==
    LET prev2 == df[i - 2]
        curr == df[i]
    IN  IF prev2.High < curr.Low
        THEN AppendIfWide(symbol, tf, df, i, prev2.High, curr.Low, "Bullish",
                          GapSizePct(prev2.High, curr.Low, prev2.High), curr.Low)
        ELSE IF prev2.Low > curr.High
        THEN AppendIfWide(symbol, tf, df, i, curr.High, prev2.Low, "Bearish",
                          GapSizePct(curr.High, prev2.Low, curr.High), curr.High)
        ELSE << >>

RECURSIVE DetectUpTo(_, _, _, _)
DetectUpTo(df, n, symbol, tf) ==
    IF n < 3 THEN << >>
    ELSE DetectUpTo(df, n - 1, symbol, tf) \o DetectAt(df, n, symbol, tf)

new_fvgs(df, symbol, tf) == DetectUpTo(df, Len(df), symbol, tf)

\* Variant of the existence check that looks among active rows only
\* (... AND IsActive = 1).
FvgExistsAmongActive(rows, fvg) ==
    \E k \in 1..Len(rows) :
        /\ rows[k].Symbol = fvg.Symbol
        /\ rows[k].TimeFrame = fvg.TimeFrame
        /\ rows[k].FVGStart = fvg.FVGStart
        /\ rows[k].FVGEnd = fvg.FVGEnd
        /\ rows[k].Direction = fvg.Direction
        /\ rows[k].IsActive = 1

\* Variant of the existence check that also compares ActiveTime.
FvgExistsAtTime(rows, fvg) ==
    \E k \in 1..Len(rows) :
        /\ rows[k].Symbol = fvg.Symbol
        /\ rows[k].TimeFrame = fvg.TimeFrame
        /\ rows[k].FVGStart = fvg.FVGStart
        /\ rows[k].FVGEnd = fvg.FVGEnd
        /\ rows[k].Direction = fvg.Direction
        /\ rows[k].ActiveTime = fvg.ActiveTime

\* SELECT 1 FROM FairValueGaps WHERE Symbol, TimeFrame, FVGStart, FVGEnd, Direction
FvgExists(rows, fvg) ==
    \E k \in 1..Len(rows) :
        /\ rows[k].Symbol = fvg.Symbol
        /\ rows[k].TimeFrame = fvg.TimeFrame
        /\ rows[k].FVGStart = fvg.FVGStart
        /\ rows[k].FVGEnd = fvg.FVGEnd
        /\ rows[k].Direction = fvg.Direction

\* The insert loop: each new gap is appended unless its key is stored
\* already (rows inserted earlier in the same loop are seen).
RECURSIVE InsertNew(_, _)
InsertNew(rows, fvgs) ==
    IF fvgs = << >> THEN rows
    ELSE InsertNew(IF FvgExists(rows, Head(fvgs)) THEN rows
                   ELSE Append(rows, Head(fvgs)),
                   Tail(fvgs))

\* (duration_min // tf_minutes) * tf_minutes
RoundedDuration(t, active_time, tf) == ((t - active_time) \div tf) * tf

\* Variant of the deactivation test that takes a close on the boundary.
FilledAtBoundary(fvg, recent_close) ==
    \/ fvg["Direction"] = "Bearish" /\ recent_close >= fvg["FVGEnd"]
    \/ fvg["Direction"] = "Bullish" /\ recent_close <= fvg["FVGStart"]

\* The deactivation test on the last candle's close.
Filled(fvg, recent_close) ==
    \/ fvg["Direction"] = "Bearish" /\ recent_close > fvg["FVGEnd"]
    \/ fvg["Direction"] = "Bullish" /\ recent_close < fvg["FVGStart"]

\* Rows of existing_fvgs (read before the inserts) the aging loop touches.
Aged(rows, k, symbol, tf) ==
    /\ rows[k].Symbol = symbol
    /\ rows[k].TimeFrame = tf
    /\ rows[k].IsActive = 1

AgeAndDeactivate(existing, rows, symbol, tf, recent_close, t) ==
    [k \in 1..Len(rows) |->
        IF k <= Len(existing) /\ Aged(existing, k, symbol, tf)
        THEN [rows[k] EXCEPT
                !.Duration = RoundedDuration(t, existing[k].ActiveTime, tf),
                !.IsActive = IF Filled(existing[k], recent_close) THEN 0 ELSE 1]
        ELSE rows[k]]

\* Variant of the aging loop without its UPDATE RetestGap statements.
RetestsKept(existing, rts, symbol, tf, recent_close) == rts

\* UPDATE RetestGap SET IsActive=0 WHERE FairValueGap=?  for each gap the
\* aging loop deactivates.
CascadeRetests(existing, rts, symbol, tf, recent_close) ==
    [k \in 1..Len(rts) |->
        LET g == rts[k].FairValueGap
        IN  IF /\ g <= Len(existing)
               /\ Aged(existing, g, symbol, tf)
               /\ Filled(existing[g], recent_close)
            THEN [rts[k] EXCEPT !.IsActive = 0]
            ELSE rts[k]]

\* The aging loop reaches UPDATE RetestGap (a gap it ages is filled) while
\* the file holds no table RetestGap: the statement raises
\* sqlite3.OperationalError.
FvgRaises(symbol, tf, ohlc) ==
    /\ "RetestGap" \notin tables
    /\ \E k \in 1..Len(gaps) :
          Aged(gaps, k, symbol, tf) /\ Filled(gaps[k], ohlc[Len(ohlc)].Close)

\* The table is created first; the inserts and updates are committed
\* together at the end, so a call that raises leaves every row as it was.
StoreFvgs(symbol, tf, ohlc, inserted, recent_close, t) ==
    /\ Len(inserted) <= MaxGaps
    /\ tables' = tables \cup { "FairValueGaps" }
    /\ IF FvgRaises(symbol, tf, ohlc)
       THEN UNCHANGED db
       ELSE /\ gaps' = AgeAndDeactivate(gaps, inserted, symbol, tf, recent_close, t)
            /\ retests' = CascadeRetests(gaps, retests, symbol, tf, recent_close)
            /\ UNCHANGED <<trades, tstatus>>

update_fvg_table(symbol, tf, ohlc, t) ==
    LET ohlc_df == add_vwap(ohlc)
    IN  /\ Len(ohlc_df) > 0
        /\ StoreFvgs(symbol, tf, ohlc, InsertNew(gaps, new_fvgs(ohlc_df, symbol, tf)),
                     ohlc_df[Len(ohlc_df)].Close, t)

\* ------------------------------------------- check_and_insert_retest_gaps
\* SELECT MAX(ActiveTime) FROM FairValueGaps WHERE TimeFrame='5m' AND IsActive=1
\* (only used when such a row exists).
MaxActiveTime(rows) ==
    LET S == { k \in 1..Len(rows) : rows[k].TimeFrame = TimeFrame5m /\ rows[k].IsActive = 1 }
    IN  CHOOSE t \in { rows[k].ActiveTime : k \in S } :
            \A k \in S : rows[k].ActiveTime <= t

\* Variant of the Step 1 query without its IsActive = 1 filters.
RetestCandidatesAnyActivity(rows) ==
    { k \in 1..Len(rows) :
        /\ rows[k].TimeFrame = TimeFrame5m
        /\ rows[k].IsRetested = 0
        /\ \A j \in 1..Len(rows) :
              rows[j].TimeFrame = TimeFrame5m => rows[j].ActiveTime <= rows[k].ActiveTime }

\* Variant of the Step 1 query without its IsRetested = 0 filter.
RetestCandidatesRetestedToo(rows) ==
    { k \in 1..Len(rows) :
        /\ rows[k].TimeFrame = TimeFrame5m
        /\ rows[k].IsActive = 1
        /\ rows[k].ActiveTime = MaxActiveTime(rows) }

\* Rows the Step 1 query matches.
RetestCandidates(rows) ==
    { k \in 1..Len(rows) :
        /\ rows[k].TimeFrame = TimeFrame5m
        /\ rows[k].IsActive = 1
        /\ rows[k].IsRetested = 0
        /\ rows[k].ActiveTime = MaxActiveTime(rows) }

\* fetchone() on a query without ORDER BY: SQLite scans the table in rowid
\* order, so the match with the smallest Id is returned.
FetchCandidate(rows) ==
    CHOOSE k \in RetestCandidates(rows) : \A j \in RetestCandidates(rows) : k <= j

\* df_symbol.sort_values("OpenTime").iloc[-1]
LatestRow(df) ==
    df[CHOOSE i \in 1..Len(df) :
          /\ \A j \in 1..Len(df) : df[j].OpenTime <= df[i].OpenTime
          /\ \A j \in (i + 1)..Len(df) : df[j].OpenTime < df[i].OpenTime]

\* Variant of the retest condition that also takes a candle opening at
\* ActiveTime.
RetestDetectedFromActiveTime(fvg, latest_row) ==
    \/ /\ fvg.Direction = "Bullish"
       /\ (latest_row.Low - fvg.FVGEnd) * TolDen <= fvg.FVGEnd * RetestTolEnd
       /\ latest_row.OpenTime >= fvg.ActiveTime
    \/ /\ fvg.Direction = "Bearish"
       /\ (latest_row.High - fvg.FVGStart) * TolDen >= - fvg.FVGStart * RetestTolStart
       /\ latest_row.OpenTime >= fvg.ActiveTime

\* Step 4: the retest condition, with the tolerance on the gap boundary:
\* Low <= fvg_end + fvg_end*0.00003, High >= fvg_start - fvg_start*0.00005
\* (both sides less the boundary, times TolDen).
RetestDetected(fvg, latest_row) ==
    \/ /\ fvg.Direction = "Bullish"
       /\ (latest_row.Low - fvg.FVGEnd) * TolDen <= fvg.FVGEnd * RetestTolEnd
       /\ latest_row.OpenTime > fvg.ActiveTime
    \/ /\ fvg.Direction = "Bearish"
       /\ (latest_row.High - fvg.FVGStart) * TolDen >= - fvg.FVGStart * RetestTolStart
       /\ latest_row.OpenTime > fvg.ActiveTime

NewRetest(fvg_id, fvg, latest_row) ==
    [Symbol |-> fvg.Symbol, OpenTime |-> latest_row.OpenTime,
     FairValueGap |-> fvg_id, TimeFrame |-> fvg.TimeFrame,
     Direction |-> fvg.Direction,
     Open |-> latest_row.Open, High |-> latest_row.High, Low |-> latest_row.Low,
     Close |-> latest_row.Close, Volume |-> latest_row.Volume,
     IsActive |-> 1, IsTraded |-> 0]

\* Step 6: UPDATE RetestGap SET IsActive=0 WHERE FairValueGap=? when the
\* selected gap reads back inactive.
DeactivateRetestsOf(rts, rows, fvg_id) ==
    IF rows[fvg_id].IsActive = 0
    THEN [k \in 1..Len(rts) |->
            IF rts[k].FairValueGap = fvg_id THEN [rts[k] EXCEPT !.IsActive = 0]
            ELSE rts[k]]
    ELSE rts

\* Table RetestGap is created before anything else is done.
check_and_insert_retest_gaps(symbol, df_1m) ==
    /\ tables' = tables \cup { "RetestGap" }
    /\ IF RetestCandidates(gaps) = {} \/ df_1m = << >>
       THEN UNCHANGED db
          ELSE LET fvg_id == FetchCandidate(gaps)
                fvg == gaps[fvg_id]
                latest_row == LatestRow(df_1m)
            IN  IF RetestDetected(fvg, latest_row)
                THEN LET marked == [gaps EXCEPT ![fvg_id].IsRetested = 1]
                         added == Append(retests, NewRetest(fvg_id, fvg, latest_row))
                     IN  /\ gaps' = marked
                         /\ retests' = DeactivateRetestsOf(added, marked, fvg_id)
                         /\ UNCHANGED <<trades, tstatus>>
                ELSE /\ retests' = DeactivateRetestsOf(retests, gaps, fvg_id)
                     /\ UNCHANGED <<gaps, trades, tstatus>>

\* Variant of the Step 1 query of trigger_trade without its IsTraded = 0
\* filter.
LatestActive(rts) ==
    { k \in 1..Len(rts) :
        /\ rts[k].IsActive = 1
        /\ \A j \in 1..Len(rts) :
              rts[j].IsActive = 1 => rts[j].OpenTime <= rts[k].OpenTime }

\* ------------------------------------------------------------ trigger_trade
\* Rows of  SELECT ... FROM RetestGap WHERE IsActive = 1 AND IsTraded = 0
\* ORDER BY OpenTime DESC LIMIT 1  may return: a row of the greatest
\* OpenTime (the order among equal OpenTimes is not specified).
LatestUntraded(rts) ==
    { k \in 1..Len(rts) :
        /\ rts[k].IsActive = 1
        /\ rts[k].IsTraded = 0
        /\ \A j \in 1..Len(rts) :
              rts[j].IsActive = 1 /\ rts[j].IsTraded = 0
                  => rts[j].OpenTime <= rts[k].OpenTime }

\* Variant of the breakout condition that takes a close on the level.
TradeTriggeredAtLevel(rg, latest_close) ==
    \/ rg.Direction = "Bullish" /\ latest_close >= rg.High
    \/ rg.Direction = "Bearish" /\ latest_close <= rg.Low

\* Step 2: the breakout condition.
TradeTriggered(rg, latest_close) ==
    \/ rg.Direction = "Bullish" /\ latest_close > rg.High
    \/ rg.Direction = "Bearish" /\ latest_close < rg.Low

\* Step 4: round(fvg_start - fvg_start*0.00005, 2), round(fvg_end + fvg_end*0.00005, 2)
InitialStopLoss(direction, fvg) ==
    IF direction = "Bullish"
    THEN Nearest(fvg.FVGStart <= MaxInt \div SlBuffer,
                 fvg.FVGStart, - fvg.FVGStart * SlBuffer, TolDen,
                 FRound2(FSub(FPrice(fvg.FVGStart), FMul(FPrice(fvg.FVGStart), FBuffer))))
    ELSE Nearest(fvg.FVGEnd <= MaxInt \div SlBuffer,
                 fvg.FVGEnd, fvg.FVGEnd * SlBuffer, TolDen,
                 FRound2(FAdd(FPrice(fvg.FVGEnd), FMul(FPrice(fvg.FVGEnd), FBuffer))))

StopLossPoints(direction, latest_close, initial_stoploss) ==
    IF direction = "Bullish" THEN latest_close - initial_stoploss
    ELSE initial_stoploss - latest_close

TargetAt(direction, latest_close, stoploss_points, mult) ==
    IF direction = "Bullish" THEN latest_close + mult * stoploss_points
    ELSE latest_close - mult * stoploss_points

TradeRow(symbol, retest_id, rg, latest_candle, initial_stoploss, stoploss_points) ==
    [Symbol |-> symbol, RetestGap |-> retest_id,
     EntryCandle |-> latest_candle.OpenTime,
     Open |-> latest_candle.Open, High |-> latest_candle.High,
     Low |-> latest_candle.Low, Close |-> latest_candle.Close,
     Volume |-> latest_candle.Volume,
     Direction |-> rg.Direction, Lot |-> Lot, RemainingLot |-> Lot,
     IntialStopLoss |-> initial_stoploss,
     IntialTarget |-> TargetAt(rg.Direction, latest_candle.Close, stoploss_points, TargetMult),
     ModifiedStopLoss |-> initial_stoploss,
     ModifiedTarget |-> TargetAt(rg.Direction, latest_candle.Close, stoploss_points, ModTargetMult),
     IsActive |-> 1]

TradeWithStop(symbol, retest_id, rg, latest_candle, initial_stoploss) ==
    TradeRow(symbol, retest_id, rg, latest_candle, initial_stoploss,
             StopLossPoints(rg.Direction, latest_candle.Close, initial_stoploss))

NewTrade(symbol, retest_id, rg, fvg, latest_candle) ==
    TradeWithStop(symbol, retest_id, rg, latest_candle, InitialStopLoss(rg.Direction, fvg))

\* Variant of the TradeStatus insert that enters at the candle's Open.
NewTradeStatusAtOpen(symbol, trade_id, latest_candle) ==
    [Symbol |-> symbol, Quantity |-> Lot, Trade |-> trade_id,
     EntryPrice |-> latest_candle.Open, ExitPrice |-> NULL, Pnl |-> NULL,
     Status |-> "Running", IsOpen |-> 1]

NewTradeStatus(symbol, trade_id, latest_candle) ==
    [Symbol |-> symbol, Quantity |-> Lot, Trade |-> trade_id,
     EntryPrice |-> latest_candle.Close, ExitPrice |-> NULL, Pnl |-> NULL,
     Status |-> "Running", IsOpen |-> 1]

\* Variant of the Step 3 lookup without its WHERE Id = ?: the first row of
\* the table.
FetchFvgAnyRow(rows, fvg_id) == IF rows # << >> THEN << rows[1] >> ELSE << >>

\* Step 3: SELECT ... FROM FairValueGaps WHERE Id = ?  and fetchone(): the
\* row in a one-element sequence, or the empty sequence for None.
FetchFvg(rows, fvg_id) ==
    IF fvg_id \in 1..Len(rows) THEN << rows[fvg_id] >> ELSE << >>

\* Variant of Step 3 without its check of the row fetched.
NoGapRowUnchecked(result) == FALSE

\* Step 3: if not result: ... conn.close(); return
NoGapRow(result) == result = << >>

\* The Step 1 query is run while the file holds no table RetestGap: it
\* raises sqlite3.OperationalError.  fvg_start = result[0] is reached with
\* result None: it raises TypeError (the check of Step 3 lets no call get
\* there).
TriggerRaises(df_1m) ==
    /\ df_1m # << >>
    /\ \/ "RetestGap" \notin tables
       \/ \E retest_id \in LatestUntraded(retests) :
             /\ TradeTriggered(retests[retest_id], df_1m[Len(df_1m)].Close)
             /\ FetchFvg(gaps, retests[retest_id].FairValueGap) = << >>
             /\ ~ NoGapRow(FetchFvg(gaps, retests[retest_id].FairValueGap))

\* An empty frame returns before the database is opened; otherwise tables
\* Trades and TradeStatus are created before anything else is done.
trigger_trade(symbol, df_1m) ==
    IF df_1m = << >>
    THEN UNCHANGED <<db, tables>>
    ELSE IF "RetestGap" \notin tables \/ LatestUntraded(retests) = {}
    THEN /\ tables' = tables \cup { "Trades", "TradeStatus" }
         /\ UNCHANGED db
    ELSE \E retest_id \in LatestUntraded(retests) :
           LET latest_candle == df_1m[Len(df_1m)]
               rg == retests[retest_id]
               result == FetchFvg(gaps, rg.FairValueGap)
           IN  /\ tables' = tables \cup { "Trades", "TradeStatus" }
               /\ IF /\ TradeTriggered(rg, latest_candle.Close)
                     /\ ~ NoGapRow(result)
                     /\ result # << >>
                  THEN /\ trades' = Append(trades,
                             NewTrade(symbol, retest_id, rg, result[1], latest_candle))
                       /\ tstatus' = Append(tstatus,
                             NewTradeStatus(symbol, Len(trades) + 1, latest_candle))
                       /\ retests' = [retests EXCEPT ![retest_id].IsTraded = 1]
                       /\ UNCHANGED gaps
                  ELSE UNCHANGED db

\* ------------------------------------------------------ update_trade_status
\* lot * (a - b) for prices a, b given as exact fractions <<num, den>>.
\* Every denominator that occurs is 1 or lot, so the division is exact.
LotTimesDiff(lot, a, b) == (lot * (a[1] * b[2] - b[1] * a[2])) \div (a[2] * b[2])

Price(x) == <<x, 1>>

\* Variant of the blended exit price that prices the whole lot at `level`.
BlendedAtLevel(lot, remaining_lot, initial_target, level) == <<lot * level, lot>>

\* The blended exit price (((lot - remaining_lot) * initial_target) +
\* (remaining_lot * level)) / lot.
Blended(lot, remaining_lot, initial_target, level) ==
    <<(lot - remaining_lot) * initial_target + remaining_lot * level, lot>>

\* The locals of one pass of the loop over active_trades, as read from the
\* joined row.
TradeLocals(ts, tr) ==
    [updated |-> FALSE, status |-> ts.Status, exit_price |-> ts.ExitPrice,
     pnl |-> ts.Pnl, is_open |-> ts.IsOpen, remaining_lot |-> tr.RemainingLot,
     modified_stoploss |-> tr.ModifiedStopLoss, modified_target |-> tr.ModifiedTarget]

\* Variant of the stop-loss exit that leaves remaining_lot as read.
ExitSLKeepingLot(ts, tr) ==
    [TradeLocals(ts, tr) EXCEPT
        !.updated = TRUE, !.status = "SL",
        !.exit_price = Price(tr.IntialStopLoss),
        !.pnl = IF tr.Direction = "Bullish"
                THEN << LotTimesDiff(tr.Lot, Price(tr.IntialStopLoss), Price(ts.EntryPrice)) >>
                ELSE << LotTimesDiff(tr.Lot, Price(ts.EntryPrice), Price(tr.IntialStopLoss)) >>,
        !.is_open = 0]

\* The stop-loss exits of a Running position.
ExitSL(ts, tr) ==
    [TradeLocals(ts, tr) EXCEPT
        !.updated = TRUE, !.status = "SL",
        !.exit_price = Price(tr.IntialStopLoss), !.remaining_lot = 0,
        !.pnl = IF tr.Direction = "Bullish"
                THEN << LotTimesDiff(tr.Lot, Price(tr.IntialStopLoss), Price(ts.EntryPrice)) >>
                ELSE << LotTimesDiff(tr.Lot, Price(ts.EntryPrice), Price(tr.IntialStopLoss)) >>,
        !.is_open = 0]

\* Variant of the partial booking that leaves modified_stoploss as read.
ExitPartialKeepingStop(ts, tr, recent_close) ==
    LET remaining_lot == tr.Lot \div 2
        booked == tr.Lot - remaining_lot
    IN  [TradeLocals(ts, tr) EXCEPT
            !.updated = TRUE, !.status = "PartialBooked",
            !.remaining_lot = remaining_lot,
            !.exit_price = Price(tr.IntialTarget),
            !.pnl = IF tr.Direction = "Bullish"
                    THEN << booked * (tr.IntialTarget - ts.EntryPrice)
                            + remaining_lot * (recent_close - ts.EntryPrice) >>
                    ELSE << booked * (ts.EntryPrice - tr.IntialTarget)
                            + remaining_lot * (ts.EntryPrice - recent_close) >>]

\* The partial booking of a Running position at its initial target.
ExitPartial(ts, tr, recent_close) ==
    LET remaining_lot == tr.Lot \div 2
        booked == tr.Lot - remaining_lot
    IN  [TradeLocals(ts, tr) EXCEPT
            !.updated = TRUE, !.status = "PartialBooked",
            !.modified_stoploss = ts.EntryPrice,
            !.remaining_lot = remaining_lot,
            !.exit_price = Price(tr.IntialTarget),
            !.pnl = IF tr.Direction = "Bullish"
                    THEN << booked * (tr.IntialTarget - ts.EntryPrice)
                            + remaining_lot * (recent_close - ts.EntryPrice) >>
                    ELSE << booked * (ts.EntryPrice - tr.IntialTarget)
                            + remaining_lot * (ts.EntryPrice - recent_close) >>]

\* Variant of the blended exit that leaves is_open as read.
ExitBlendedLeftOpen(ts, tr, status, level) ==
    LET exit_price == Blended(tr.Lot, tr.RemainingLot, tr.IntialTarget, level)
    IN  [TradeLocals(ts, tr) EXCEPT
            !.updated = TRUE, !.status = status,
            !.exit_price = exit_price, !.remaining_lot = 0,
            !.pnl = IF tr.Direction = "Bullish"
                    THEN << LotTimesDiff(tr.Lot, Price(ts.EntryPrice), exit_price) >>
                    ELSE << LotTimesDiff(tr.Lot, exit_price, Price(ts.EntryPrice)) >>]

\* The terminal exits of a PartialBooked position, at the blended price of
\* the booked half and `level` (the breakeven stop or the modified target).
ExitBlended(ts, tr, status, level) ==
    LET exit_price == Blended(tr.Lot, tr.RemainingLot, tr.IntialTarget, level)
    IN  [TradeLocals(ts, tr) EXCEPT
            !.updated = TRUE, !.status = status,
            !.exit_price = exit_price, !.remaining_lot = 0,
            !.pnl = IF tr.Direction = "Bullish"
                    THEN << LotTimesDiff(tr.Lot, Price(ts.EntryPrice), exit_price) >>
                    ELSE << LotTimesDiff(tr.Lot, exit_price, Price(ts.EntryPrice)) >>,
            !.is_open = 0]

\* === EXIT LOGIC ===: the if/elif chain for one joined row.
ExitLogic(ts, tr, recent_close) ==
    LET bull == tr.Direction = "Bullish"
        bear == tr.Direction = "Bearish"
    IN  IF ts.Status = "Running" /\ bull /\ recent_close < tr.IntialStopLoss
        THEN ExitSL(ts, tr)
        ELSE IF ts.Status = "Running" /\ bear /\ recent_close > tr.IntialStopLoss
        THEN ExitSL(ts, tr)
        ELSE IF ts.Status = "Running" /\ bull /\ recent_close >= tr.IntialTarget
        THEN ExitPartial(ts, tr, recent_close)
        ELSE IF ts.Status = "Running" /\ bear /\ recent_close <= tr.IntialTarget
        THEN ExitPartial(ts, tr, recent_close)
        ELSE IF ts.Status = "PartialBooked" /\ bull /\ recent_close < tr.ModifiedStopLoss
        THEN ExitBlended(ts, tr, "CostToCost", tr.ModifiedStopLoss)
        ELSE IF ts.Status = "PartialBooked" /\ bear /\ recent_close > tr.ModifiedStopLoss
        THEN ExitBlended(ts, tr, "CostToCost", tr.ModifiedStopLoss)
        ELSE IF ts.Status = "PartialBooked" /\ bull /\ recent_close >= tr.ModifiedTarget
        THEN ExitBlended(ts, tr, "FullBooked", tr.ModifiedTarget)
        ELSE IF ts.Status = "PartialBooked" /\ bear /\ recent_close <= tr.ModifiedTarget
        THEN ExitBlended(ts, tr, "FullBooked", tr.ModifiedTarget)
        ELSE TradeLocals(ts, tr)

\* Rows of the join: TS.IsOpen = 1 AND T.Symbol = ?
ActiveTrade(k, symbol) ==
    /\ tstatus[k].IsOpen = 1
    /\ tstatus[k].Trade \in 1..Len(trades)
    /\ trades[tstatus[k].Trade].Symbol = symbol

\* UPDATE TradeStatus SET Status, ExitPrice, Pnl, IsOpen
WriteTradeStatus(ts, x) ==
    IF x.updated
    THEN [ts EXCEPT !.Status = x.status, !.ExitPrice = x.exit_price,
                    !.Pnl = x.pnl, !.IsOpen = x.is_open]
    ELSE ts

\* Variant of the Trades update without IsActive = ?.
WriteTradeKeepingActive(tr, x) ==
    IF x.updated
    THEN [tr EXCEPT !.RemainingLot = x.remaining_lot,
                    !.ModifiedStopLoss = x.modified_stoploss,
                    !.ModifiedTarget = x.modified_target]
    ELSE tr

\* UPDATE Trades SET RemainingLot, ModifiedStopLoss, ModifiedTarget, IsActive
WriteTrade(tr, x) ==
    IF x.updated
    THEN [tr EXCEPT !.RemainingLot = x.remaining_lot,
                    !.ModifiedStopLoss = x.modified_stoploss,
                    !.ModifiedTarget = x.modified_target,
                    !.IsActive = x.is_open]
    ELSE tr

\* The trade row after every pass of the loop that names it has written
\* (passes run in TradeStatus Id order; each reads the row as fetched
\* before the loop).
RECURSIVE TradeAfter(_, _, _, _)
TradeAfter(j, k, symbol, recent_close) ==
    IF k = 0 THEN trades[j]
    ELSE LET before == TradeAfter(j, k - 1, symbol, recent_close)
         IN  IF ActiveTrade(k, symbol) /\ tstatus[k].Trade = j
             THEN WriteTrade(before, [ExitLogic(tstatus[k], trades[j], recent_close)
                                        EXCEPT !.updated = @])
             ELSE before

\* The query on TradeStatus and Trades is run while the file does not hold
\* the two tables: it raises sqlite3.OperationalError.
StatusRaises(df_1m) ==
    df_1m # << >> /\ ~ ( { "TradeStatus", "Trades" } \subseteq tables )

\* The function creates no table.
update_trade_status(df_1m, symbol) ==
    IF df_1m = << >> \/ StatusRaises(df_1m)
    THEN UNCHANGED <<db, tables>>
    ELSE LET recent_close == df_1m[Len(df_1m)].Close
         IN  /\ UNCHANGED tables
             /\ tstatus' = [k \in 1..Len(tstatus) |->
                   IF ActiveTrade(k, symbol)
                   THEN WriteTradeStatus(tstatus[k],
                            ExitLogic(tstatus[k], trades[tstatus[k].Trade], recent_close))
                   ELSE tstatus[k]]
             /\ trades' = [j \in 1..Len(trades) |->
                   TradeAfter(j, Len(tstatus), symbol, recent_close)]
             /\ UNCHANGED <<gaps, retests>>

\* ------------------------------------------------------------------ feed
\* A minute passes and df_1m is fetched: the frame now ends with the new
\* minute's candle, or is empty (run_bot fetches df_1m in every loop body and
\* hands it to the three 1m stages).
Tick ==
    /\ now < MaxTime
    /\ now' = now + 1
    /\ feed_1m' \in Frames1m(now + 1)
    /\ cycle' = [cycle EXCEPT !.fetches = 1]
    /\ UNCHANGED <<db, tables>>

\* df_1m is fetched again within the minute (a loop body begun just before
\* the minute mark, or the process started again within the minute): the
\* exchange may by now list the minute's candle where it listed none, list
\* the candle as it has moved on since, or answer with no row.  A request
\* answered with the frame already held changes nothing.
Fetch ==
    /\ cycle.fetches < MaxFetches
    /\ feed_1m' \in Fetched1m(now, feed_1m)
    /\ feed_1m' # feed_1m
    /\ cycle' = [cycle EXCEPT !.fetches = @ + 1]
    /\ UNCHANGED <<db, tables, now>>

\* ---------------------------------------------------------- specification
\* The stages may run in any order and any number of times within a minute;
\* run_bot runs update_fvg_table in the first seconds of the minutes that
\* start a 5-minute slot.
\* A call that raises ends the process; the file stays as it is, and the
\* stages run on it again once the program has been started again.
UpdateFvg ==
    /\ now % TimeFrame5m = 0
    /\ \E ohlc \in Series5m(now) :
          /\ update_fvg_table(BotSymbol, TimeFrame5m, ohlc, now)
          /\ cycle' = Outcome(FvgRaises(BotSymbol, TimeFrame5m, ohlc))
    /\ UNCHANGED <<now, feed_1m>>

CheckRetest ==
    /\ check_and_insert_retest_gaps(BotSymbol, feed_1m)
    /\ cycle' = Outcome(FALSE)
    /\ UNCHANGED <<now, feed_1m>>

TriggerTrade ==
    /\ trigger_trade(BotSymbol, feed_1m)
    /\ cycle' = Outcome(TriggerRaises(feed_1m))
    /\ UNCHANGED <<now, feed_1m>>

UpdateTradeStatus ==
    /\ update_trade_status(feed_1m, BotSymbol)
    /\ cycle' = Outcome(StatusRaises(feed_1m))
    /\ UNCHANGED <<now, feed_1m>>

Next ==
    \/ UpdateFvg
    \/ CheckRetest
    \/ TriggerTrade
    \/ UpdateTradeStatus
    \/ Tick
    \/ Fetch

Spec == Init /\ [][Next]_vars

\* ------------------------------------------------------------- the bot loop
\* run_bot's loop body, statement by statement: the clock read (main.py 101),
\* update_fvg_table when the clock read falls in the first five seconds of a
\* minute that starts a 5-minute slot, the fetch of df_1m, the three 1m
\* stages on that frame, and the sleep to the minute after the clock read.
\* The wall clock runs on while the body runs: a request to the exchange
\* takes any time, so df_1m may end with the candle of a later minute than
\* the clock read, and a body that is still running at the next minute mark
\* is followed by the next body at once (sleep of max(0, ...)), whose clock
\* read is then at any second of any later minute and whose df_1m may end
\* with the candle the body before it was given, seen later.
\*
\* The program is started at any minute, on a new file or on the file an
\* earlier run left behind: that run's one loop body began a 5-minute slot
\* earlier, update_fvg_table stored the gaps of the series it was given, and
\* the run ended at its fetch of df_1m (the file has no table RetestGap) or,
\* df_1m being empty, after its 1m stages (check_and_insert_retest_gaps had
\* created table RetestGap, trigger_trade had returned before opening the
\* file).
GapsLeft ==
    { InsertNew(<< >>, new_fvgs(add_vwap(q), BotSymbol, TimeFrame5m)) :
          q \in Series5m(- TimeFrame5m) }

InitBot ==
    /\ gaps \in GapsLeft
    /\ retests = << >>
    /\ trades = << >>
    /\ tstatus = << >>
    /\ tables \in { AtStartup, AtStartup \cup { "RetestGap" } }
    /\ now \in 0..MaxBotTime
    /\ feed_1m = << >>
    /\ cycle \in { CycleStart(early, now) : early \in BOOLEAN }

\* current_minute % 5 == 0 and current_second < 5
FvgDue == cycle.minute % TimeFrame5m = 0 /\ cycle.early

\* A minute mark passes while the loop body runs.  A call of a stage is one
\* step, so a mark that passes during a call passes before or after its step;
\* the stages that follow the fetch of df_1m read no clock that the store
\* depends on, so a mark passing among them is one passing before the sleep.
BotTime ==
    /\ cycle.pc \in { "fvg", "fetch", "done" }
    /\ now < MaxBotTime
    /\ now' = now + 1
    /\ UNCHANGED <<db, tables, feed_1m, cycle>>

\* The 5m series a process started again is given: the candles that had
\* closed are the same as long as the 5-minute slot is.
SeriesFetched ==
    { q \in Series5m(now) :
        ( /\ cycle.pass = 2
          /\ cycle.ohlc # << >>
          /\ q[Len(q)].OpenTime = cycle.ohlc[Len(cycle.ohlc)].OpenTime ) => q = cycle.ohlc }

BotFvg ==
    /\ cycle.pc = "fvg"
    /\ IF FvgDue
       THEN \E ohlc \in SeriesFetched :
               /\ update_fvg_table(BotSymbol, TimeFrame5m, ohlc, now)
               /\ cycle' = [cycle EXCEPT
                               !.pc = IF FvgRaises(BotSymbol, TimeFrame5m, ohlc)
                                      THEN "raised" ELSE "fetch",
                               !.same = @ /\ ( cycle.pass = 2 => ohlc = cycle.ohlc ),
                               !.ohlc = ohlc]
       ELSE /\ UNCHANGED <<db, tables>>
            /\ cycle' = [cycle EXCEPT !.pc = "fetch"]
    /\ UNCHANGED <<now, feed_1m>>

\* df_1m = fetch_delta_ohlc(symbol, "1m", ...): the frame ends with the
\* candle of the minute the request is made in.
BotFetch ==
    /\ cycle.pc = "fetch"
    /\ feed_1m' \in Fetched1m(now, feed_1m)
    /\ cycle' = [cycle EXCEPT
                    !.pc = "retest",
                    !.same = @ /\ ( cycle.pass = 2 => feed_1m' = feed_1m ),
                    !.seen = <<Len(retests), Len(trades)>>]
    /\ UNCHANGED <<db, tables, now>>

BotRetest ==
    /\ cycle.pc = "retest"
    /\ check_and_insert_retest_gaps(BotSymbol, feed_1m)
    /\ cycle' = [cycle EXCEPT !.pc = "trade"]
    /\ UNCHANGED <<now, feed_1m>>

\* Variant of the trade stage that runs in place of the retest stage.
BotTriggerBeforeRetest ==
    /\ cycle.pc = "retest"
    /\ trigger_trade(BotSymbol, feed_1m)
    /\ cycle' = [cycle EXCEPT !.pc = "status"]
    /\ UNCHANGED <<now, feed_1m>>

BotTrigger ==
    /\ cycle.pc = "trade"
    /\ trigger_trade(BotSymbol, feed_1m)
    /\ cycle' = [cycle EXCEPT !.pc = IF TriggerRaises(feed_1m) THEN "raised" ELSE "status"]
    /\ UNCHANGED <<now, feed_1m>>

BotStatus ==
    /\ cycle.pc = "status"
    /\ update_trade_status(feed_1m, BotSymbol)
    /\ cycle' = [cycle EXCEPT !.pc = IF StatusRaises(feed_1m) THEN "raised" ELSE "done",
                              !.first = IF cycle.pass = 1 THEN db' ELSE @]
    /\ UNCHANGED <<now, feed_1m>>

\* The process is ended after a loop body and started again within the
\* minute of that body's clock read: the loop body runs once more, its
\* clock read in the same minute at a second no earlier.
BotRerun ==
    /\ cycle.pc = "done"
    /\ cycle.pass = 1
    /\ now = cycle.minute
    /\ \E early \in { e \in BOOLEAN : e => cycle.early } :
          cycle' = [cycle EXCEPT !.pc = "fvg", !.pass = 2, !.early = early]
    /\ UNCHANGED <<db, tables, now, feed_1m>>

\* next_minute is the minute after the clock read and the body ended before
\* it: time.sleep returns at or after that mark and the next body reads the
\* clock.
BotSleep ==
    /\ cycle.pc = "done"
    /\ now = cycle.minute
    /\ now < MaxBotTime
    /\ now' = now + 1
    /\ \E early \in BOOLEAN : cycle' = CycleStart(early, now + 1)
    /\ UNCHANGED <<db, tables, feed_1m>>

\* The body ended at or after next_minute: sleep_seconds is not positive,
\* time.sleep(0) returns at once and the next body reads the clock in the
\* minute the clock has reached, at any second.
BotOverrun ==
    /\ cycle.pc = "done"
    /\ now > cycle.minute
    /\ \E early \in BOOLEAN : cycle' = CycleStart(early, now)
    /\ UNCHANGED <<db, tables, now, feed_1m>>

\* fetch_delta_ohlc raises RuntimeError on a response other than 200: inside
\* update_fvg_table (which fetches the 5m series itself) or at run_bot's fetch
\* of the 1m frame.  run_bot catches nothing, so the exception ends the
\* thread the loop runs in; nothing in the program starts it again.
BotFeedFails ==
    /\ \/ cycle.pc = "fvg" /\ FvgDue
       \/ cycle.pc = "fetch"
    /\ cycle' = [cycle EXCEPT !.pc = "feed_failed"]
    /\ UNCHANGED <<db, tables, now, feed_1m>>

\* The feed returns no 5m candle: the detection and insert loops run over
\* nothing and ohlc_df.iloc[-1] raises IndexError before any write.
BotFvgEmpty ==
    /\ cycle.pc = "fvg"
    /\ FvgDue
    /\ cycle' = [cycle EXCEPT !.pc = "raised", !.ohlc = << >>]
    /\ tables' = tables \cup { "FairValueGaps" }
    /\ UNCHANGED <<db, now, feed_1m>>

NextBot ==
    \/ BotFvg
    \/ BotFetch
    \/ BotRetest
    \/ BotTrigger
    \/ BotStatus
    \/ BotRerun
    \/ BotSleep
    \/ BotOverrun
    \/ BotTime
    \/ BotFeedFails
    \/ BotFvgEmpty

SpecBot == InitBot /\ [][NextBot]_vars

\* ------------------------------------------------------------ properties
SameGapKey(a, b) ==
    /\ a.Symbol = b.Symbol
    /\ a.TimeFrame = b.TimeFrame
    /\ a.Direction = b.Direction
    /\ a.FVGStart = b.FVGStart
    /\ a.FVGEnd = b.FVGEnd

UniqueGapKeys(rows) ==
    \A a, b \in 1..Len(rows) : a # b => ~SameGapKey(rows[a], rows[b])

FreshGap(row) == row.IsActive = 1 /\ row.IsRetested = 0 /\ row.Duration = 0

\* The gaps update_fvg_table detects in a series at the current minute.
DetectedIn(ohlc) == new_fvgs(add_vwap(ohlc), BotSymbol, TimeFrame5m)

\* C1: in every step of every stage a stored gap keeps its row and key, an
\* inactive gap stays inactive (IsActive never goes from 0 back to 1, hence
\* goes from 1 to 0 at most once), and no row added by the step carries the
\* key of a gap that was inactive before it.
C1_DeactivationIsFinal ==
    [][ /\ Len(gaps') >= Len(gaps)
        /\ \A k \in 1..Len(gaps) :
              /\ SameGapKey(gaps'[k], gaps[k])
              /\ gaps[k].IsActive = 0 =>
                    /\ gaps'[k].IsActive = 0
                    /\ \A j \in (Len(gaps) + 1)..Len(gaps') :
                          ~SameGapKey(gaps'[j], gaps[k]) ]_vars

\* A deactivated gap is stored and update_fvg_table can run on a series that
\* detects its pattern again.
C1_Redetected ==
    /\ now % TimeFrame5m = 0
    /\ \E k \in 1..Len(gaps), ohlc \in Series5m(now) :
          /\ gaps[k].IsActive = 0
          /\ \E i \in 1..Len(DetectedIn(ohlc)) : SameGapKey(DetectedIn(ohlc)[i], gaps[k])

\* C2: the table never holds two rows of one (Symbol, TimeFrame, Direction,
\* FVGStart, FVGEnd); no step changes a stored row's ActiveTime, GapSize or
\* DistanceFromVWAP; the insert loop, on any series update_fvg_table can be
\* given in the state, leaves every stored row as it is (all fields) and adds
\* only rows with IsActive=1, IsRetested=0, Duration=0; and the rows a step
\* adds are in that state after the step.
C2_InsertIsDedup ==
    [][ /\ UniqueGapKeys(gaps')
        /\ \A k \in 1..Len(gaps) :
              /\ gaps'[k].ActiveTime = gaps[k].ActiveTime
              /\ gaps'[k].GapSize = gaps[k].GapSize
              /\ gaps'[k].DistanceFromVWAP = gaps[k].DistanceFromVWAP
        /\ \A j \in (Len(gaps) + 1)..Len(gaps') : FreshGap(gaps'[j])
        /\ \A ohlc \in (IF now % TimeFrame5m = 0 THEN Series5m(now) ELSE {}) :
              LET ins == InsertNew(gaps, DetectedIn(ohlc))
              IN  /\ UniqueGapKeys(ins)
                  /\ Len(ins) >= Len(gaps)
                  /\ \A k \in 1..Len(gaps) : ins[k] = gaps[k]
                  /\ \A j \in (Len(gaps) + 1)..Len(ins) : FreshGap(ins[j]) ]_vars

\* A series that yields the same gap twice has just been processed: its
\* first detection is stored, unaged, and is the only row of its key.
C2_SameGapTwice ==
    \E ohlc \in Series5m(now) :
        /\ Len(DetectedIn(ohlc)) >= 2
        /\ SameGapKey(DetectedIn(ohlc)[1], DetectedIn(ohlc)[2])
        /\ \E k \in 1..Len(gaps) : gaps[k] = DetectedIn(ohlc)[1]

\* C3: in every step, a retested gap stays retested (IsRetested never goes
\* from 1 back to 0, hence goes from 0 to 1 at most once), and a gap whose
\* IsRetested goes from 0 to 1 is active before and after the step.
C3_RetestedOnceWhileActive ==
    [][ \A k \in 1..Len(gaps) :
          /\ gaps[k].IsRetested = 1 => gaps'[k].IsRetested = 1
          /\ gaps[k].IsRetested = 0 /\ gaps'[k].IsRetested = 1 =>
                gaps[k].IsActive = 1 /\ gaps'[k].IsActive = 1 ]_vars

\* An inactive, never retested gap is stored while the latest 1m candle
\* meets its retest condition, and another gap has been retested.
C3_InactiveGapTouched ==
    /\ feed_1m # << >>
    /\ \E k \in 1..Len(gaps) :
          /\ gaps[k].IsActive = 0
          /\ gaps[k].IsRetested = 0
          /\ RetestDetected(gaps[k], LatestRow(feed_1m))
    /\ \E k \in 1..Len(gaps) : gaps[k].IsRetested = 1

\* The retest rows that reference gap g, and the trades that reference
\* retest r.
RetestsOf(g) == { k \in 1..Len(retests) : retests[k].FairValueGap = g }

TradesOf(r) == { k \in 1..Len(trades) : trades[k].RetestGap = r }

\* C4: in every step, a retest row the step adds references a stored gap
\* that, before the step, was active with IsRetested = 0, and carries the
\* OpenTime of a candle strictly after that gap's ActiveTime; the step
\* removes no retest row.
C4_RetestOnlyAfterActiveTime ==
    [][ /\ Len(retests') >= Len(retests)
        /\ \A j \in (Len(retests) + 1)..Len(retests') :
              LET g == retests'[j].FairValueGap
              IN  /\ g \in 1..Len(gaps)
                  /\ gaps[g].IsActive = 1
                  /\ gaps[g].IsRetested = 0
                  /\ retests'[j].OpenTime > gaps[g].ActiveTime
                  /\ retests'[j].OpenTime = LatestRow(feed_1m).OpenTime ]_vars

\* A retest has been recorded, and the latest candle touches the selected
\* gap but opens exactly at that gap's ActiveTime.
C4_CandleAtActiveTime ==
    /\ Len(retests) > 0
    /\ feed_1m # << >>
    /\ RetestCandidates(gaps) # {}
    /\ LET fvg == gaps[FetchCandidate(gaps)]
       IN  /\ LatestRow(feed_1m).OpenTime = fvg.ActiveTime
           /\ RetestDetectedFromActiveTime(fvg, LatestRow(feed_1m))

\* C5: in every state each gap is referenced by at most one retest row, and
\* a gap has IsRetested = 1 exactly when one retest row references it.
C5_OneRetestPerGap ==
    \A g \in 1..Len(gaps) :
        /\ Cardinality(RetestsOf(g)) <= 1
        /\ gaps[g].IsRetested = 1 <=> Cardinality(RetestsOf(g)) = 1

\* A gap was retested on an earlier candle, is still active with the
\* greatest ActiveTime, and the latest candle meets its retest condition
\* again.
C5_TouchedAgain ==
    /\ feed_1m # << >>
    /\ \E g \in 1..Len(gaps), r \in 1..Len(retests) :
          /\ retests[r].FairValueGap = g
          /\ gaps[g].IsRetested = 1
          /\ gaps[g].IsActive = 1
          /\ gaps[g].ActiveTime = MaxActiveTime(gaps)
          /\ retests[r].OpenTime < LatestRow(feed_1m).OpenTime
          /\ RetestDetected(gaps[g], LatestRow(feed_1m))

\* C6: in every state an active retest row references an active gap, and in
\* every step an inactive retest row stays inactive.
C6_ActiveRetestHasActiveGap ==
    /\ [](\A k \in 1..Len(retests) :
            retests[k].IsActive = 1 =>
                /\ retests[k].FairValueGap \in 1..Len(gaps)
                /\ gaps[retests[k].FairValueGap].IsActive = 1)
    /\ [][ \A k \in 1..Len(retests) :
              retests[k].IsActive = 0 => retests'[k].IsActive = 0 ]_vars

\* A retested gap has been deactivated, and its retest row with it.
C6_Cascaded ==
    \E k \in 1..Len(retests) :
        /\ retests[k].IsActive = 0
        /\ gaps[retests[k].FairValueGap].IsActive = 0
        /\ gaps[retests[k].FairValueGap].IsRetested = 1

\* C7: in every state each retest row is referenced by at most one trade and
\* has IsTraded = 1 exactly when one trade references it; in every step a
\* traded retest stays traded, and a trade the step adds references a retest
\* row that was active with IsTraded = 0 before the step.
C7_OneTradePerRetest ==
    /\ [](\A r \in 1..Len(retests) :
            /\ Cardinality(TradesOf(r)) <= 1
            /\ retests[r].IsTraded = 1 <=> Cardinality(TradesOf(r)) = 1)
    /\ [][ /\ \A r \in 1..Len(retests) :
                retests[r].IsTraded = 1 => retests'[r].IsTraded = 1
           /\ Len(trades') >= Len(trades)
           /\ \A j \in (Len(trades) + 1)..Len(trades') :
                LET r == trades'[j].RetestGap
                IN  /\ r \in 1..Len(retests)
                    /\ retests[r].IsActive = 1
                    /\ retests[r].IsTraded = 0 ]_vars

\* A retest has been traded, is still active, and the latest candle still
\* closes beyond it.
C7_BreakoutPersists ==
    /\ feed_1m # << >>
    /\ \E r \in 1..Len(retests) :
          /\ retests[r].IsTraded = 1
          /\ retests[r].IsActive = 1
          /\ TradesOf(r) # {}
          /\ TradeTriggered(retests[r], feed_1m[Len(feed_1m)].Close)

TerminalStatus == { "SL", "CostToCost", "FullBooked" }

StatusTransitions ==
    { <<"Running", "SL">>, <<"Running", "PartialBooked">>,
      <<"PartialBooked", "CostToCost">>, <<"PartialBooked", "FullBooked">> }

\* C8: in every step a position keeps its status or takes one of the
\* transitions Running->SL, Running->PartialBooked, PartialBooked->CostToCost,
\* PartialBooked->FullBooked; a position in SL, CostToCost or FullBooked keeps
\* its Status, ExitPrice, Pnl and IsOpen; and IsOpen changes only from 1 to 0,
\* and does so exactly in the step that enters a terminal status.
C8_StatusTransitions ==
    [][ /\ Len(tstatus') >= Len(tstatus)
        /\ \A k \in 1..Len(tstatus) :
              LET old == tstatus[k]
                  new == tstatus'[k]
              IN  /\ new.Status = old.Status \/ <<old.Status, new.Status>> \in StatusTransitions
                  /\ old.Status \in TerminalStatus =>
                        /\ new.Status = old.Status
                        /\ new.ExitPrice = old.ExitPrice
                        /\ new.Pnl = old.Pnl
                        /\ new.IsOpen = old.IsOpen
                  /\ (old.IsOpen = 1 /\ new.IsOpen = 0) <=>
                        (old.Status \notin TerminalStatus /\ new.Status \in TerminalStatus)
                  /\ old.IsOpen = 0 => new.IsOpen = 0 ]_vars

\* A position has reached a terminal status and the latest candle meets an
\* exit condition of the status it left.
C8_ClosedUnderExitCandle ==
    /\ feed_1m # << >>
    /\ \E k \in 1..Len(tstatus), s \in { "Running", "PartialBooked" } :
          /\ tstatus[k].Status \in TerminalStatus
          /\ tstatus[k].Status = "SL" <=> s = "Running"
          /\ ExitLogic([tstatus[k] EXCEPT !.Status = s], trades[tstatus[k].Trade],
                       feed_1m[Len(feed_1m)].Close).updated

\* C9: in every state a trade's RemainingLot is Lot, Lot/2 or 0, and is 0
\* exactly when its position has IsOpen = 0; in every step RemainingLot does
\* not increase.
C9_RemainingLot ==
    /\ [](\A k \in 1..Len(tstatus) :
            LET tr == trades[tstatus[k].Trade]
            IN  /\ tr.RemainingLot \in { tr.Lot, tr.Lot \div 2, 0 }
                /\ tr.RemainingLot = 0 <=> tstatus[k].IsOpen = 0)
    /\ [][ \A j \in 1..Len(trades) : trades'[j].RemainingLot <= trades[j].RemainingLot ]_vars

\* One trade was stopped out at its full lot and another was closed after a
\* partial booking.
C9_LotRunsDown ==
    /\ \E k \in 1..Len(tstatus) :
          tstatus[k].Status = "SL" /\ trades[tstatus[k].Trade].RemainingLot = 0
    /\ \E k \in 1..Len(tstatus) :
          tstatus[k].Status = "FullBooked" /\ trades[tstatus[k].Trade].RemainingLot = 0

\* lot x (exitPrice - entryPrice) for a Bullish trade, lot x (entryPrice -
\* exitPrice) for a Bearish one, on the stored exit price.
DirectionalPnl(ts, tr) ==
    IF tr.Direction = "Bullish"
    THEN LotTimesDiff(tr.Lot, ts.ExitPrice, Price(ts.EntryPrice))
    ELSE LotTimesDiff(tr.Lot, Price(ts.EntryPrice), ts.ExitPrice)

\* C10: a position in a terminal status (SL, CostToCost, FullBooked) stores
\* pnl = lot x (exitPrice - entryPrice) if Bullish and lot x (entryPrice -
\* exitPrice) if Bearish, on the exit price it stores.
C10_TerminalPnl ==
    \A k \in 1..Len(tstatus) :
        tstatus[k].Status \in TerminalStatus =>
            tstatus[k].Pnl = << DirectionalPnl(tstatus[k], trades[tstatus[k].Trade]) >>

\* A Bullish position is FullBooked above its entry price.
C10_BullishFullBooked ==
    \E k \in 1..Len(tstatus) :
        /\ tstatus[k].Status = "FullBooked"
        /\ trades[tstatus[k].Trade].Direction = "Bullish"
        /\ tstatus[k].ExitPrice[1] > tstatus[k].EntryPrice * tstatus[k].ExitPrice[2]

\* The TradeStatus rows that reference trade j.
StatusesOf(j) == { k \in 1..Len(tstatus) : tstatus[k].Trade = j }

\* C12: in every state each trade has exactly one TradeStatus row, with
\* Trades.IsActive = TradeStatus.IsOpen, and the trade fields the status
\* transitions write agree with the status (Running: full lot, stop at the
\* initial stop; PartialBooked: half lot, stop at the entry price; terminal:
\* lot 0); in every step a TradeStatus row changes exactly when its trade
\* row changes.
C12_TradeAndStatusInStep ==
    /\ [](/\ \A k \in 1..Len(tstatus) : tstatus[k].Trade \in 1..Len(trades)
          /\ \A j \in 1..Len(trades) :
                /\ Cardinality(StatusesOf(j)) = 1
                /\ \A k \in StatusesOf(j) :
                      /\ trades[j].IsActive = tstatus[k].IsOpen
                      /\ tstatus[k].Status = "Running" =>
                            /\ trades[j].RemainingLot = trades[j].Lot
                            /\ trades[j].ModifiedStopLoss = trades[j].IntialStopLoss
                      /\ tstatus[k].Status = "PartialBooked" =>
                            /\ trades[j].RemainingLot = trades[j].Lot \div 2
                            /\ trades[j].ModifiedStopLoss = tstatus[k].EntryPrice
                      /\ tstatus[k].Status \in TerminalStatus =>
                            trades[j].RemainingLot = 0)
    /\ [][ \A k \in 1..Len(tstatus) :
              (tstatus'[k] # tstatus[k]) <=>
                  (trades'[tstatus[k].Trade] # trades[tstatus[k].Trade]) ]_vars

\* A position was closed at cost after a partial booking, and its trade row
\* is inactive.
C12_ClosedAtCost ==
    \E k \in 1..Len(tstatus) :
        /\ tstatus[k].Status = "CostToCost"
        /\ tstatus[k].IsOpen = 0
        /\ trades[tstatus[k].Trade].IsActive = 0

\* The close of the latest candle moved through the gap's far boundary.
CloseCrossed(fvg, close) ==
    IF fvg.Direction = "Bearish" THEN close > fvg.FVGEnd
    ELSE fvg.Direction = "Bullish" /\ close < fvg.FVGStart

LastClose(ohlc) == ohlc[Len(ohlc)].Close

\* FairValueGaps as update_fvg_table leaves it when given the series at the
\* current minute (the value it assigns to the table).
GapsAfterUpdate(ohlc) ==
    AgeAndDeactivate(gaps, InsertNew(gaps, DetectedIn(ohlc)), BotSymbol, TimeFrame5m,
                     LastClose(add_vwap(ohlc)), now)

\* C13: after every call of update_fvg_table the loop makes on a series of
\* candles, whether the call returns or raises, every gap of the symbol and
\* timeframe that was active before the call is inactive exactly when the
\* last candle's close is beyond the gap's far boundary (Bearish: close >
\* FVGEnd; Bullish: close < FVGStart).
C13_DeactivatedIffCrossed ==
    [][ ( /\ cycle.pc = "fvg"
          /\ FvgDue
          /\ cycle'.pc \in { "fetch", "raised" }
          /\ cycle'.ohlc # << >> ) =>
        \A k \in 1..Len(gaps) :
            ( /\ gaps[k].Symbol = BotSymbol
              /\ gaps[k].TimeFrame = TimeFrame5m
              /\ gaps[k].IsActive = 1 ) =>
            ( gaps'[k].IsActive = 0 <=>
                  CloseCrossed(gaps[k], LastClose(cycle'.ohlc)) ) ]_vars

\* The same for the calls of the loop that return.
C13_DeactivatedIffCrossedInLoop ==
    [][ ( /\ cycle.pc = "fvg"
          /\ FvgDue
          /\ cycle'.pc = "fetch"
          /\ cycle'.ohlc # << >> ) =>
        \A k \in 1..Len(gaps) :
            ( /\ gaps[k].Symbol = BotSymbol
              /\ gaps[k].TimeFrame = TimeFrame5m
              /\ gaps[k].IsActive = 1 ) =>
            ( gaps'[k].IsActive = 0 <=>
                  CloseCrossed(gaps[k], LastClose(cycle'.ohlc)) ) ]_vars

\* The same for the calls that return, the stages run in any order: on every
\* series update_fvg_table can be given and returns on (a file that holds
\* table RetestGap, or no gap the call ages is crossed), and a step that adds
\* a gap or changes a gap's IsActive is a call that returned and leaves the
\* table as such a call does.
C13_DeactivatedIffCrossedOnReturn ==
    /\ [](now % TimeFrame5m = 0 =>
            \A ohlc \in { q \in Series5m(now) : ~ FvgRaises(BotSymbol, TimeFrame5m, q) } :
                \A k \in 1..Len(gaps) :
                    ( /\ gaps[k].Symbol = BotSymbol
                      /\ gaps[k].TimeFrame = TimeFrame5m
                      /\ gaps[k].IsActive = 1 ) =>
                    ( GapsAfterUpdate(ohlc)[k].IsActive = 0 <=>
                          CloseCrossed(gaps[k], LastClose(ohlc)) ))
    /\ [][ ( \/ Len(gaps') # Len(gaps)
             \/ \E k \in 1..Len(gaps) : gaps'[k].IsActive # gaps[k].IsActive ) =>
           ( /\ now % TimeFrame5m = 0
             /\ cycle'.pc = "idle"
             /\ \E ohlc \in { q \in Series5m(now) : ~ FvgRaises(BotSymbol, TimeFrame5m, q) } :
                   gaps' = GapsAfterUpdate(ohlc) ) ]_vars

\* One gap has been deactivated, and update_fvg_table can run on a series
\* that closes exactly on the far boundary of a gap that is still active.
C13_CloseOnBoundary ==
    /\ now % TimeFrame5m = 0
    /\ \E k \in 1..Len(gaps) : gaps[k].IsActive = 0
    /\ \E k \in 1..Len(gaps), ohlc \in Series5m(now) :
          /\ gaps[k].IsActive = 1
          /\ LastClose(ohlc) = IF gaps[k].Direction = "Bearish"
                               THEN gaps[k].FVGEnd ELSE gaps[k].FVGStart
          /\ Len(GapsAfterUpdate(ohlc)) <= MaxGaps

\* The loop's call of update_fvg_table has raised on a file without table
\* RetestGap, given a series whose last close is beyond the far boundary of
\* a gap that was active; the gap is still active.
C13_CrossedGapLeftActive ==
    /\ cycle.pc = "raised"
    /\ cycle.ohlc # << >>
    /\ "RetestGap" \notin tables
    /\ \E k \in 1..Len(gaps) :
          /\ gaps[k].Symbol = BotSymbol
          /\ gaps[k].TimeFrame = TimeFrame5m
          /\ gaps[k].IsActive = 1
          /\ CloseCrossed(gaps[k], LastClose(cycle.ohlc))

\* The gaps the candidate is to be taken from: active, not yet retested, of
\* the tracked timeframe, with the greatest ActiveTime among those.
NewestUnretested(rows) ==
    { k \in 1..Len(rows) :
        /\ rows[k].TimeFrame = TimeFrame5m
        /\ rows[k].IsActive = 1
        /\ rows[k].IsRetested = 0
        /\ \A j \in 1..Len(rows) :
              ( rows[j].TimeFrame = TimeFrame5m /\ rows[j].IsActive = 1
                /\ rows[j].IsRetested = 0 ) => rows[j].ActiveTime <= rows[k].ActiveTime }

\* C14: whenever an active, not yet retested gap of the tracked timeframe
\* exists, check_and_insert_retest_gaps has a candidate, and it is one of
\* greatest ActiveTime among the active, not yet retested gaps; so when the
\* latest candle meets that gap's retest condition, the call records a
\* retest.
C14_CandidateIsNewestUnretested ==
    NewestUnretested(gaps) # {} =>
        /\ RetestCandidates(gaps) # {}
        /\ FetchCandidate(gaps) \in NewestUnretested(gaps)
        /\ ( /\ feed_1m # << >>
             /\ \A k \in NewestUnretested(gaps) : RetestDetected(gaps[k], LatestRow(feed_1m)) )
           => ENABLED ( CheckRetest /\ Len(retests') = Len(retests) + 1 )

\* The newest active gap has been retested, an older active gap has not, and
\* the latest candle meets the older gap's retest condition.
C14_OlderGapWaiting ==
    /\ feed_1m # << >>
    /\ \E a, b \in 1..Len(gaps) :
          /\ gaps[a].IsActive = 1 /\ gaps[a].IsRetested = 1
          /\ gaps[b].IsActive = 1 /\ gaps[b].IsRetested = 0
          /\ gaps[b].ActiveTime < gaps[a].ActiveTime
          /\ RetestDetected(gaps[b], LatestRow(feed_1m))

\* The retest condition with one tolerance, the one the code puts on FVGEnd,
\* on both boundaries: Low <= FVGEnd * (1 + tol), High >= FVGStart * (1 - tol).
RetestWithinSameTolerance(fvg, candle) ==
    \/ /\ fvg.Direction = "Bullish"
       /\ (candle.Low - fvg.FVGEnd) * TolDen <= fvg.FVGEnd * RetestTolEnd
    \/ /\ fvg.Direction = "Bearish"
       /\ (candle.High - fvg.FVGStart) * TolDen >= - fvg.FVGStart * RetestTolEnd

\* C15: when check_and_insert_retest_gaps has a candidate and the latest
\* candle is strictly newer than the candidate's ActiveTime, the call records
\* a retest exactly when the candle's Low is at most FVGEnd raised by the
\* tolerance (Bullish) or its High is at least FVGStart lowered by the same
\* tolerance (Bearish).
C15_RetestIffWithinSameTolerance ==
    ( /\ feed_1m # << >>
      /\ RetestCandidates(gaps) # {}
      /\ LatestRow(feed_1m).OpenTime > gaps[FetchCandidate(gaps)].ActiveTime )
    => ( ENABLED ( CheckRetest /\ Len(retests') = Len(retests) + 1 )
         <=> RetestWithinSameTolerance(gaps[FetchCandidate(gaps)], LatestRow(feed_1m)) )

\* A retest of a Bearish gap was recorded on a candle whose High is below
\* FVGStart by more than the tolerance on FVGEnd.
C15_BearishRetestBelowTolerance ==
    \E r \in 1..Len(retests) :
        /\ retests[r].Direction = "Bearish"
        /\ (retests[r].High - gaps[retests[r].FairValueGap].FVGStart) * TolDen
               < - gaps[retests[r].FairValueGap].FVGStart * RetestTolEnd

\* The active, untraded retest rows of greatest OpenTime.
NewestUntraded(rts) ==
    { r \in 1..Len(rts) :
        /\ rts[r].IsActive = 1 /\ rts[r].IsTraded = 0
        /\ \A q \in 1..Len(rts) :
              ( rts[q].IsActive = 1 /\ rts[q].IsTraded = 0 ) => rts[q].OpenTime <= rts[r].OpenTime }

\* The close is strictly beyond the retest candle: above its High (Bullish),
\* below its Low (Bearish).
Breakout(rg, close) ==
    IF rg.Direction = "Bullish" THEN close > rg.High
    ELSE rg.Direction = "Bearish" /\ close < rg.Low

FeedClose == feed_1m[Len(feed_1m)].Close

\* C16: trigger_trade can open a trade exactly when the latest candle's close
\* breaks out of a most recent active untraded retest, and otherwise it can
\* change nothing; in every step at most one trade is added, a trade added
\* is for a most recent active untraded retest the close breaks out of, and
\* a step that adds no trade adds no TradeStatus row and leaves every
\* IsTraded as it is.
C16_TradeIffBreakout ==
    /\ [](LET breakout == /\ feed_1m # << >>
                          /\ \E r \in NewestUntraded(retests) : Breakout(retests[r], FeedClose)
          IN  /\ breakout <=> ENABLED ( TriggerTrade /\ Len(trades') = Len(trades) + 1 )
              /\ ~ breakout => ~ ENABLED ( TriggerTrade /\ db' # db ))
    /\ [][ /\ Len(trades') \in { Len(trades), Len(trades) + 1 }
           /\ Len(trades') = Len(trades) + 1 =>
                 /\ trades'[Len(trades')].RetestGap \in NewestUntraded(retests)
                 /\ Breakout(retests[trades'[Len(trades')].RetestGap], FeedClose)
           /\ Len(trades') = Len(trades) =>
                 /\ Len(tstatus') = Len(tstatus)
                 /\ \A r \in 1..Len(retests) : retests'[r].IsTraded = retests[r].IsTraded ]_vars

\* A trade has been opened, and the most recent active untraded retest sees
\* a close exactly on its level.
C16_CloseOnLevel ==
    /\ Len(trades) > 0
    /\ feed_1m # << >>
    /\ \E r \in NewestUntraded(retests) :
          FeedClose = IF retests[r].Direction = "Bullish" THEN retests[r].High
                      ELSE retests[r].Low

\* The gap a trade's retest belongs to.
GapOfTrade(tr) == gaps[retests[tr.RetestGap].FairValueGap]

\* C17: every trade stores, for entry close c: Bullish, IntialStopLoss =
\* FVGStart * (1 - 0.00005), IntialTarget = c + 2 * (c - IntialStopLoss),
\* ModifiedTarget = c + 3 * (c - IntialStopLoss); Bearish, IntialStopLoss =
\* FVGEnd * (1 + 0.00005), IntialTarget = c - 2 * (IntialStopLoss - c),
\* ModifiedTarget = c - 3 * (IntialStopLoss - c).  (The stop is compared less
\* the boundary, times TolDen.)
C17_ExactLevels ==
    \A j \in 1..Len(trades) :
        LET tr == trades[j]
            fvg == GapOfTrade(tr)
            c == tr.Close
        IN  IF tr.Direction = "Bullish"
            THEN /\ (tr.IntialStopLoss - fvg.FVGStart) * TolDen = - fvg.FVGStart * SlBuffer
                 /\ tr.IntialTarget = c + TargetMult * (c - tr.IntialStopLoss)
                 /\ tr.ModifiedTarget = c + ModTargetMult * (c - tr.IntialStopLoss)
            ELSE /\ (tr.IntialStopLoss - fvg.FVGEnd) * TolDen = fvg.FVGEnd * SlBuffer
                 /\ tr.IntialTarget = c - TargetMult * (tr.IntialStopLoss - c)
                 /\ tr.ModifiedTarget = c - ModTargetMult * (tr.IntialStopLoss - c)

\* A Bearish trade was opened on a gap whose FVGEnd * 0.00005 is not a whole
\* number of cents.
C17_BearishStopRounded ==
    \E j \in 1..Len(trades) :
        /\ trades[j].Direction = "Bearish"
        /\ (GapOfTrade(trades[j]).FVGEnd * SlBuffer) % TolDen # 0

\* C18: a step that adds a trade adds exactly one Trades row, with Lot =
\* RemainingLot = the unit size, IsActive = 1 and the Direction of its retest,
\* and exactly one TradeStatus row that references it, with Status Running,
\* IsOpen = 1 and EntryPrice the latest candle's close; it sets IsTraded = 1
\* on that retest and leaves every other row and field of the store as it
\* was.
C18_TradeOpened ==
    [][ Len(trades') > Len(trades) =>
          LET j == Len(trades) + 1
              r == trades'[j].RetestGap
          IN  /\ Len(trades') = j
              /\ SubSeq(trades', 1, Len(trades)) = trades
              /\ r \in 1..Len(retests)
              /\ trades'[j].Lot = Lot
              /\ trades'[j].RemainingLot = Lot
              /\ trades'[j].IsActive = 1
              /\ trades'[j].Direction = retests[r].Direction
              /\ Len(tstatus') = Len(tstatus) + 1
              /\ SubSeq(tstatus', 1, Len(tstatus)) = tstatus
              /\ tstatus'[Len(tstatus')].Trade = j
              /\ tstatus'[Len(tstatus')].Status = "Running"
              /\ tstatus'[Len(tstatus')].IsOpen = 1
              /\ tstatus'[Len(tstatus')].EntryPrice = FeedClose
              /\ retests' = [retests EXCEPT ![r].IsTraded = 1]
              /\ retests[r].IsTraded = 0
              /\ gaps' = gaps ]_vars

\* A second trade has been opened, on a candle that closed away from its
\* open, while the first trade's rows were in the store.
C18_SecondTradeOpened ==
    /\ Len(trades) >= 2
    /\ Len(tstatus) >= 2
    /\ \E j \in 1..Len(trades) : trades[j].Open # trades[j].Close

\* The close is beyond level `stop` on the losing side / has reached level
\* `target` on the winning side, for a trade of the direction.
StopHit(direction, close, stop) ==
    IF direction = "Bullish" THEN close < stop ELSE close > stop

TargetHit(direction, close, target) ==
    IF direction = "Bullish" THEN close >= target ELSE close <= target

\* What a call on the latest close is to make of the Running position k
\* (an action: the primed rows are the rows after the call).
RunningRule(k) ==
    LET ts == tstatus[k]
        j == ts.Trade
        tr == trades[j]
    IN  IF StopHit(tr.Direction, FeedClose, tr.IntialStopLoss)
        THEN /\ tstatus'[k].Status = "SL"
             /\ tstatus'[k].ExitPrice = Price(tr.IntialStopLoss)
             /\ tstatus'[k].IsOpen = 0
             /\ trades'[j].RemainingLot = 0
        ELSE IF TargetHit(tr.Direction, FeedClose, tr.IntialTarget)
        THEN /\ tstatus'[k].Status = "PartialBooked"
             /\ tstatus'[k].ExitPrice = Price(tr.IntialTarget)
             /\ tstatus'[k].IsOpen = 1
             /\ trades'[j].RemainingLot = tr.Lot \div 2
             /\ trades'[j].ModifiedStopLoss = ts.EntryPrice
        ELSE /\ tstatus'[k] = ts
             /\ trades'[j] = tr

\* C19: update_trade_status on the latest candle takes every Running
\* position as the rule says (close beyond the initial stop: SL, exit at the
\* stop, lot 0, closed; else close at or past the initial target:
\* PartialBooked, exit at the target, half the lot, stop moved to the entry
\* price, still open; else position and trade unchanged), and no step
\* changes a Running position or its trade in any other way.
C19_RunningRule ==
    /\ [](feed_1m # << >> =>
            ~ ENABLED ( /\ UpdateTradeStatus
                        /\ ~ \A k \in 1..Len(tstatus) :
                                 tstatus[k].Status = "Running" => RunningRule(k) ))
    /\ [][ \A k \in 1..Len(tstatus) :
              ( /\ tstatus[k].Status = "Running"
                /\ \/ tstatus'[k] # tstatus[k]
                   \/ trades'[tstatus[k].Trade] # trades[tstatus[k].Trade] )
              => ( feed_1m # << >> /\ RunningRule(k) ) ]_vars

\* A Bearish position is PartialBooked, its stop moved from the initial stop
\* to the entry price.
C19_BearishPartialBooked ==
    \E k \in 1..Len(tstatus) :
        /\ tstatus[k].Status = "PartialBooked"
        /\ trades[tstatus[k].Trade].Direction = "Bearish"
        /\ trades[tstatus[k].Trade].ModifiedStopLoss = tstatus[k].EntryPrice
        /\ trades[tstatus[k].Trade].ModifiedStopLoss # trades[tstatus[k].Trade].IntialStopLoss

\* Fraction e is ((booked * initial_target) + (remaining * level)) / lot,
\* booked = lot - remaining (e is over lot, or over 1 when the division
\* leaves a whole number of cents).
IsBlend(e, lot, remaining, initial_target, level) ==
    LET sum == (lot - remaining) * initial_target + remaining * level
    IN  \/ e[2] = lot /\ e[1] = sum
        \/ e[2] = 1 /\ e[1] * lot = sum

\* What a call on the latest close is to make of the PartialBooked position
\* k (an action: the primed rows are the rows after the call).
PartialBookedRule(k) ==
    LET ts == tstatus[k]
        j == ts.Trade
        tr == trades[j]
    IN  IF StopHit(tr.Direction, FeedClose, tr.ModifiedStopLoss)
        THEN /\ tstatus'[k].Status = "CostToCost"
             /\ IsBlend(tstatus'[k].ExitPrice, tr.Lot, tr.RemainingLot,
                        tr.IntialTarget, tr.ModifiedStopLoss)
             /\ tstatus'[k].IsOpen = 0
             /\ trades'[j].RemainingLot = 0
        ELSE IF TargetHit(tr.Direction, FeedClose, tr.ModifiedTarget)
        THEN /\ tstatus'[k].Status = "FullBooked"
             /\ IsBlend(tstatus'[k].ExitPrice, tr.Lot, tr.RemainingLot,
                        tr.IntialTarget, tr.ModifiedTarget)
             /\ tstatus'[k].IsOpen = 0
             /\ trades'[j].RemainingLot = 0
        ELSE /\ tstatus'[k] = ts
             /\ trades'[j] = tr

\* C20: a PartialBooked position has its stop at the entry price and half
\* its lot remaining; update_trade_status on the latest candle takes it as the
\* rule says (close beyond the modified stop: CostToCost at the blend of the
\* initial target and the modified stop; else close at or past the modified
\* target: FullBooked at the blend of the initial and the modified target;
\* both with lot 0 and closed; else unchanged), and no step changes a
\* PartialBooked position or its trade in any other way.
C20_PartialBookedRule ==
    /\ [](\A k \in 1..Len(tstatus) :
            tstatus[k].Status = "PartialBooked" =>
                /\ trades[tstatus[k].Trade].ModifiedStopLoss = tstatus[k].EntryPrice
                /\ trades[tstatus[k].Trade].RemainingLot * 2 = trades[tstatus[k].Trade].Lot)
    /\ [](feed_1m # << >> =>
            ~ ENABLED ( /\ UpdateTradeStatus
                        /\ ~ \A k \in 1..Len(tstatus) :
                                 tstatus[k].Status = "PartialBooked" => PartialBookedRule(k) ))
    /\ [][ \A k \in 1..Len(tstatus) :
              ( /\ tstatus[k].Status = "PartialBooked"
                /\ \/ tstatus'[k] # tstatus[k]
                   \/ trades'[tstatus[k].Trade] # trades[tstatus[k].Trade] )
              => ( feed_1m # << >> /\ PartialBookedRule(k) ) ]_vars

\* A Bearish position is FullBooked at a price between its two targets, and
\* a position is closed at cost.
C20_BothBlendedExits ==
    /\ \E k \in 1..Len(tstatus) :
          /\ tstatus[k].Status = "FullBooked"
          /\ trades[tstatus[k].Trade].Direction = "Bearish"
          /\ tstatus[k].ExitPrice[1] > trades[tstatus[k].Trade].ModifiedTarget * tstatus[k].ExitPrice[2]
          /\ tstatus[k].ExitPrice[1] < trades[tstatus[k].Trade].IntialTarget * tstatus[k].ExitPrice[2]
    /\ \E k \in 1..Len(tstatus) : tstatus[k].Status = "CostToCost"

\* A table of gaps with the wall-clock field Duration left out.
LessDuration(rows) == [k \in 1..Len(rows) |-> [rows[k] EXCEPT !.Duration = 0]]

\* C11: when the loop body has run a second time on the data of the minute,
\* the store (gaps less Duration, retests, trades, positions) is as the
\* first run left it.
C11_SecondRunChangesNothing ==
    ( cycle.pc = "done" /\ cycle.pass = 2 /\ cycle.same ) =>
        /\ LessDuration(gaps) = LessDuration(cycle.first[1])
        /\ retests = cycle.first[2]
        /\ trades = cycle.first[3]
        /\ tstatus = cycle.first[4]

\* The loop body has run twice on a minute's data with a position open
\* before the minute, and the second run left the store as the first did.
C11_RerunWithPosition ==
    /\ cycle.pc = "done"
    /\ cycle.pass = 2
    /\ cycle.same
    /\ db = cycle.first
    /\ \E k \in 1..Len(tstatus) :
          tstatus[k].IsOpen = 1 /\ trades[tstatus[k].Trade].EntryCandle < cycle.minute

\* --------------------------------------------------- detection on its own
\* update_fvg_table on an empty store, given any series of up to MaxSeries
\* candles drawn from two families of bands <<Low, High>>: one around 100.00
\* (the candles [H=100,L=95], [H=102,L=98], [H=110,L=106] among them) and one
\* around 10000.00 whose bands lie 0.01%, 0.015%, 0.016%, 0.02% and 0.025%
\* above 10000.00 (0.015% and 0.025% are halfway between two stored sizes).
\* The series to process is held in cycle.ohlc.
DetectBands ==
    { { <<9500, 10000>>, <<9800, 10200>>, <<10600, 11000>> },
      { <<999000, 1000000>>, <<1000100, 1000300>>, <<1000150, 1000300>>,
        <<1000160, 1000300>>, <<1000200, 1000300>>, <<1000250, 1000300>> } }

RECURSIVE SeqsOf(_, _)
SeqsOf(S, n) ==
    IF n = 0 THEN { << >> }
    ELSE { Append(q, x) : q \in SeqsOf(S, n - 1), x \in S }

DetectSeries ==
    UNION { UNION { { LayOut([i \in 1..n |-> Shape(q[i], q[i][1])], 0) : q \in SeqsOf(B, n) }
                    : n \in 1..MaxSeries } : B \in DetectBands }

InitDetect ==
    /\ gaps = << >>
    /\ retests = << >>
    /\ trades = << >>
    /\ tstatus = << >>
    /\ tables = AtStartup
    /\ now = 0
    /\ feed_1m = << >>
    /\ cycle \in { [Idle EXCEPT !.pc = "detect", !.ohlc = q] : q \in DetectSeries }

Detect ==
    /\ cycle.pc = "detect"
    /\ update_fvg_table(BotSymbol, TimeFrame5m, cycle.ohlc, now)
    /\ cycle' = [cycle EXCEPT !.pc = "detected"]
    /\ UNCHANGED <<now, feed_1m>>

NextDetect == Detect

SpecDetect == InitDetect /\ [][NextDetect]_vars

\* The gaps the detection loop emits for the series held in cycle.ohlc.
Emitted == new_fvgs(add_vwap(cycle.ohlc), BotSymbol, TimeFrame5m)

\* A gap of the direction and boundaries is emitted for the triple ending at
\* row i (the gap's ActiveTime is that candle's close time).
EmittedAt(i, dir, start, end) ==
    \E n \in 1..Len(Emitted) :
        /\ Emitted[n].ActiveTime = cycle.ohlc[i].OpenTime + TimeFrame5m
        /\ Emitted[n].Direction = dir
        /\ Emitted[n].FVGStart = start
        /\ Emitted[n].FVGEnd = end

\* The stored size of the gap lo..hi relative to ref reaches the threshold.
SizePasses(lo, hi, ref) == GapSizePct(lo, hi, ref) >= MinGapSize

\* C21: for every series and every row i >= 3 with prev2 = row i-2 and curr =
\* row i, a Bullish gap prev2.High..curr.Low is emitted for the row exactly
\* when prev2.High < curr.Low and its size passes the threshold, and a Bearish
\* gap curr.High..prev2.Low exactly when prev2.Low > curr.High and its size
\* passes the threshold; nothing else is emitted; every emitted and every
\* stored gap has FVGStart < FVGEnd, and every stored gap is an emitted one.
C21_GapPerTriple ==
    /\ \A i \in 3..Len(cycle.ohlc) :
          LET prev2 == cycle.ohlc[i - 2]
              curr == cycle.ohlc[i]
          IN  /\ EmittedAt(i, "Bullish", prev2.High, curr.Low)
                    <=> ( prev2.High < curr.Low
                          /\ SizePasses(prev2.High, curr.Low, prev2.High) )
              /\ EmittedAt(i, "Bearish", curr.High, prev2.Low)
                    <=> ( prev2.Low > curr.High
                          /\ SizePasses(curr.High, prev2.Low, curr.High) )
    /\ \A n \in 1..Len(Emitted) :
          /\ Emitted[n].FVGStart < Emitted[n].FVGEnd
          /\ \E i \in 3..Len(cycle.ohlc) :
                LET prev2 == cycle.ohlc[i - 2]
                    curr == cycle.ohlc[i]
                IN  /\ Emitted[n].ActiveTime = curr.OpenTime + TimeFrame5m
                    /\ \/ /\ Emitted[n].Direction = "Bullish"
                          /\ Emitted[n].FVGStart = prev2.High
                          /\ Emitted[n].FVGEnd = curr.Low
                       \/ /\ Emitted[n].Direction = "Bearish"
                          /\ Emitted[n].FVGStart = curr.High
                          /\ Emitted[n].FVGEnd = prev2.Low
    /\ \A k \in 1..Len(gaps) :
          /\ gaps[k].FVGStart < gaps[k].FVGEnd
          /\ \E n \in 1..Len(Emitted) : Emitted[n] = gaps[k]

\* The series [H=100,L=95], [H=102,L=98], [H=110,L=106] has been processed:
\* the Bullish gap 100..106 of size 6.0 is stored.
C21_ExampleStored ==
    /\ cycle.pc = "detected"
    /\ Len(cycle.ohlc) = 3
    /\ cycle.ohlc[1].High = 10000 /\ cycle.ohlc[1].Low = 9500
    /\ cycle.ohlc[2].High = 10200 /\ cycle.ohlc[2].Low = 9800
    /\ cycle.ohlc[3].High = 11000 /\ cycle.ohlc[3].Low = 10600
    /\ Len(gaps) = 1
    /\ gaps[1].Direction = "Bullish"
    /\ gaps[1].FVGStart = 10000
    /\ gaps[1].FVGEnd = 10600
    /\ gaps[1].GapSize = 600

\* C22: every emitted and every stored gap has GapSize equal to
\* (FVGEnd - FVGStart) / referencePrice x 100 rounded to two decimals (the
\* nearest hundredth; referencePrice is FVGStart in both directions, the
\* Bearish FVGStart being curr.High), and a relative size of at least the
\* 0.02% threshold: (FVGEnd - FVGStart) / referencePrice x 100 >= 0.02.
C22_SizeAndThreshold ==
    \A g \in { Emitted[n] : n \in 1..Len(Emitted) } \cup { gaps[k] : k \in 1..Len(gaps) } :
        LET raw == (g.FVGEnd - g.FVGStart) * PctScale
            err == g.GapSize * g.FVGStart - raw
        IN  /\ 2 * err <= g.FVGStart
            /\ 2 * err >= - g.FVGStart
            /\ raw >= MinGapSize * g.FVGStart

\* A series has been processed in which one triple leaves a gap of exactly
\* 0.02%, stored with GapSize 0.02, and another a gap of less that was not
\* emitted.
C22_ThresholdApplied ==
    /\ cycle.pc = "detected"
    /\ \E k \in 1..Len(gaps) :
          /\ (gaps[k].FVGEnd - gaps[k].FVGStart) * PctScale = MinGapSize * gaps[k].FVGStart
          /\ gaps[k].GapSize = MinGapSize
    /\ \E i \in 3..Len(cycle.ohlc) :
          /\ cycle.ohlc[i - 2].High < cycle.ohlc[i].Low
          /\ ~ EmittedAt(i, "Bullish", cycle.ohlc[i - 2].High, cycle.ohlc[i].Low)

\* ------------------------------------------------ the bot loop's stages
\* The order in which the loop body moves from statement to statement, and
\* the ways the loop stops.
StageOrder ==
    { <<"fvg", "fetch">>, <<"fetch", "retest">>, <<"retest", "trade">>,
      <<"trade", "status">>, <<"status", "done">>, <<"done", "fvg">> }

Stopped == { "feed_failed", "raised" }

\* C23: in every step of the loop the position moves along fvg -> fetch ->
\* retest -> trade -> status -> done -> fvg (or the loop stops), each stage's
\* step being the whole committed call; and each kind of write happens only
\* in its stage's step: gaps are added, aged or deactivated only by the fvg
\* stage (of a body whose clock read falls in the first five seconds of a
\* minute that starts a 5-minute slot), retests are added and gaps marked
\* retested only by the retest stage, trades and positions are added and
\* retests marked traded only by the trade stage, and stored trades and
\* positions change only in the status stage; no other step (the fetch of
\* df_1m, a minute mark passing, the sleep) writes anything.
C23_StagesInOrder ==
    [][ /\ cycle'.pc # cycle.pc =>
              \/ <<cycle.pc, cycle'.pc>> \in StageOrder
              \/ cycle'.pc \in Stopped
        /\ cycle'.pc = cycle.pc => db' = db
        /\ cycle.pc \in { "fetch", "done" } => db' = db
        /\ ( \/ Len(gaps') # Len(gaps)
             \/ \E k \in 1..Len(gaps) :
                   \/ gaps'[k].IsActive # gaps[k].IsActive
                   \/ gaps'[k].Duration # gaps[k].Duration )
           => ( cycle.pc = "fvg" /\ cycle'.pc = "fetch" /\ FvgDue )
        /\ ( \E r \in 1..Len(retests) : retests'[r].IsActive # retests[r].IsActive )
           => ( cycle.pc \in { "fvg", "retest" } )
        /\ ( \/ Len(retests') # Len(retests)
             \/ \E k \in 1..Len(gaps) : gaps'[k].IsRetested # gaps[k].IsRetested )
           => ( cycle.pc = "retest" /\ cycle'.pc = "trade" )
        /\ ( \/ Len(trades') # Len(trades)
             \/ Len(tstatus') # Len(tstatus)
             \/ \E r \in 1..Len(retests) : retests'[r].IsTraded # retests[r].IsTraded )
           => ( cycle.pc = "trade" /\ cycle'.pc = "status" )
        /\ ( \/ \E k \in 1..Len(tstatus) : tstatus'[k] # tstatus[k]
             \/ \E j \in 1..Len(trades) : trades'[j] # trades[j] )
           => ( cycle.pc = "status" /\ cycle'.pc = "done" ) ]_vars

\* The retest stage has run in the first loop body of a run started in a
\* minute that starts a 5-minute slot, after the body's fvg stage: the fvg
\* stage deactivated a gap (every gap was active when the run started) on a
\* series closing beyond its far boundary, and the retest stage, given a
\* candle that touches that gap, read it inactive and recorded no retest.
C23_RetestAfterDeactivation ==
    /\ cycle.pc = "trade"
    /\ cycle.pass = 1
    /\ cycle.minute = 0
    /\ FvgDue
    /\ cycle.ohlc # << >>
    /\ feed_1m # << >>
    /\ retests = << >>
    /\ \E k \in 1..Len(gaps) :
          /\ gaps[k].IsActive = 0
          /\ gaps[k].IsRetested = 0
          /\ CloseCrossed(gaps[k], LastClose(cycle.ohlc))
          /\ RetestDetected(gaps[k], LatestRow(feed_1m))

\* The steps of the loop that wait for nothing outside the process: the
\* stages on the local file, the sleep and the clock reads.  The requests to
\* the exchange are not among them: requests.get is called without a
\* timeout and may never return.
BotLocal ==
    \/ ~ FvgDue /\ BotFvg
    \/ BotRetest
    \/ BotTrigger
    \/ BotStatus
    \/ BotSleep
    \/ BotOverrun

\* The loop under its scheduling: the thread keeps running, so a local step
\* of the loop that can be taken is eventually taken.
SpecBotLive == SpecBot /\ WF_vars(BotLocal)

\* C24: a step in which the feed fails leaves the store as it was, and a feed
\* failure in a minute before the last is followed by the start of the next
\* minute's cycle.
C24_NextCycleAfterFeedFailure ==
    /\ [][ cycle'.pc = "feed_failed" => db' = db ]_vars
    /\ \A t \in 0..(MaxBotTime - 1) :
          ( cycle.pc = "feed_failed" /\ now = t ) ~> ( cycle.pc = "fvg" /\ now = t + 1 )

\* The feed failed at the 1m fetch, after the cycle's fvg stage had written
\* to the store, in a minute that is not the last.
C24_FeedFailedMidCycle ==
    /\ cycle.pc = "feed_failed"
    /\ now < MaxBotTime
    /\ cycle.ohlc # << >>
    /\ gaps \notin GapsLeft

\* C25: a step of update_fvg_table given a series of fewer than three
\* candles (none included) leaves the store as it was and the loop goes on
\* to the fetch of df_1m; and a step of a 1m stage given an empty frame leaves
\* the store as it was and the loop goes on to the next stage.
C25_ShortSeriesSkipped ==
    [][ /\ ( /\ cycle.pc = "fvg"
             /\ FvgDue
             /\ cycle'.pc \in { "fetch", "raised" }
             /\ Len(cycle'.ohlc) < 3 )
           => ( db' = db /\ cycle'.pc = "fetch" )
        /\ ( /\ cycle.pc \in { "retest", "trade", "status" }
             /\ feed_1m = << >>
             /\ cycle'.pc \in { "trade", "status", "done", "raised" } )
           => ( db' = db /\ <<cycle.pc, cycle'.pc>> \in StageOrder ) ]_vars

\* A cycle has run to its end on an empty 1m frame while a position was
\* open.
C25_EmptyFrameCycle ==
    /\ cycle.pc = "done"
    /\ feed_1m = << >>
    /\ \E k \in 1..Len(tstatus) : tstatus[k].IsOpen = 1

\* ------------------------------------------- a retest whose gap is gone
\* trigger_trade on a store that holds one active untraded retest and at
\* most one gap, the retest naming gap 1 or gap 2: its gap row may be
\* missing (rows deleted from FairValueGaps by hand; the schema's foreign key
\* names a table that does not exist, and SQLite does not enforce it).
OrphanGaps ==
    { << >> } \cup { << DetectedIn(q)[1] >> : q \in { x \in Series5m(0) : DetectedIn(x) # << >> } }

OrphanRetests ==
    { << NewRetest(id, DetectedIn(q)[1], c) >> :
          id \in 1..2,
          q \in { x \in Series5m(0) : DetectedIn(x) # << >> },
          c \in Candles1m(-1) }

InitOrphan ==
    /\ gaps \in OrphanGaps
    /\ retests \in OrphanRetests
    /\ trades = << >>
    /\ tstatus = << >>
    /\ tables = { "FairValueGaps", "RetestGap" }
    /\ now = 0
    /\ feed_1m \in Frames1m(0)
    /\ cycle = Idle

NextOrphan == TriggerTrade

SpecOrphan == InitOrphan /\ [][NextOrphan]_vars

\* Retest row r names a gap row that is not in the table.
GapMissing(r) == retests[r].FairValueGap \notin 1..Len(gaps)

\* C26: whenever the retest trigger_trade selects names a missing gap, the
\* call can change nothing (whatever the latest candle) and can only return:
\* no step of it ends in an exception; and in every step a trade is opened
\* only for a retest whose gap row exists, and a step that opens no trade
\* leaves the store as it was.
C26_MissingGapIsNoOp ==
    /\ []( ( \A r \in LatestUntraded(retests) : GapMissing(r) )
             => /\ ~ ENABLED ( TriggerTrade /\ db' # db )
                /\ ~ ENABLED ( TriggerTrade /\ cycle'.pc # "idle" ) )
    /\ [][ /\ ( \A r \in LatestUntraded(retests) : GapMissing(r) ) =>
                 ( db' = db /\ cycle'.pc = "idle" )
           /\ Len(trades') > Len(trades) =>
                 ~ GapMissing(trades'[Len(trades')].RetestGap)
           /\ Len(trades') = Len(trades) => db' = db ]_vars

\* The selected retest names a missing gap while another gap is stored, and
\* the latest candle's close breaks out of the retest.
C26_BreakoutOfOrphan ==
    /\ feed_1m # << >>
    /\ gaps # << >>
    /\ \E r \in LatestUntraded(retests) :
          /\ GapMissing(r)
          /\ TradeTriggered(retests[r], FeedClose)
          /\ retests[r].IsTraded = 0

\* ------------------------------------------------------- several symbols
\* Gaps are tracked for two symbols (update_fvg_table is called for either,
\* each on its own 5m series), and the three 1m stages are called for
\* BotSymbol on BotSymbol's 1m frame, in any order.
Symbols == { "BTCUSD", "ETHUSD" }

UpdateFvgFor(s) ==
    /\ now % TimeFrame5m = 0
    /\ \E ohlc \in Series5m(now) :
          /\ update_fvg_table(s, TimeFrame5m, ohlc, now)
          /\ cycle' = Outcome(FvgRaises(s, TimeFrame5m, ohlc))
    /\ UNCHANGED <<now, feed_1m>>

NextSymbols ==
    \/ \E s \in Symbols : UpdateFvgFor(s)
    \/ CheckRetest
    \/ TriggerTrade
    \/ UpdateTradeStatus
    \/ now < MaxSymbolsTime /\ Tick
    \/ Fetch

SpecSymbols == Init /\ [][NextSymbols]_vars

\* Row k of the table is new or changed by the step.
Written(old, new, k) == IF k > Len(old) THEN TRUE ELSE new[k] # old[k]

\* The step writes a row of a symbol other than s, or adds a row that
\* references a row of another symbol than its own.
WritesOutside(s) ==
    \/ \E k \in 1..Len(gaps') : Written(gaps, gaps', k) /\ gaps'[k].Symbol # s
    \/ \E k \in 1..Len(retests') :
          /\ Written(retests, retests', k)
          /\ \/ retests'[k].Symbol # s
             \/ gaps'[retests'[k].FairValueGap].Symbol # s
    \/ \E k \in 1..Len(trades') :
          /\ Written(trades, trades', k)
          /\ \/ trades'[k].Symbol # s
             \/ retests'[trades'[k].RetestGap].Symbol # s
    \/ \E k \in 1..Len(tstatus') :
          /\ Written(tstatus, tstatus', k)
          /\ \/ tstatus'[k].Symbol # s
             \/ trades'[tstatus'[k].Trade].Symbol # s

\* C27: in every state, no call of check_and_insert_retest_gaps,
\* trigger_trade or update_trade_status for BotSymbol on BotSymbol's frame
\* can write a gap, retest, trade or position of another symbol, or a row
\* that references one.
C27_SymbolsDisjoint ==
    ~ ENABLED ( /\ CheckRetest \/ TriggerTrade \/ UpdateTradeStatus
                /\ WritesOutside(BotSymbol) )

\* Gaps of both symbols are stored, and a trade is open on a retest of a gap
\* of the trade's own symbol.
C27_BothSymbolsTracked ==
    /\ \A s \in Symbols : \E k \in 1..Len(gaps) : gaps[k].Symbol = s
    /\ \E j \in 1..Len(trades) :
          /\ retests[trades[j].RetestGap].Symbol = trades[j].Symbol
          /\ GapOfTrade(trades[j]).Symbol = trades[j].Symbol

\* The levels of trade tr lie on the profitable side of its entry.
LevelsOrdered(tr) ==
    IF tr.Direction = "Bullish"
    THEN /\ tr.IntialStopLoss < tr.Close
         /\ tr.Close < tr.IntialTarget
         /\ tr.IntialTarget < tr.ModifiedTarget
    ELSE /\ tr.ModifiedTarget < tr.IntialTarget
         /\ tr.IntialTarget < tr.Close
         /\ tr.Close < tr.IntialStopLoss

\* C28: every trade has its levels ordered around its entry price (the
\* entry candle's close): Bullish, IntialStopLoss < entry < IntialTarget <
\* ModifiedTarget; Bearish, ModifiedTarget < IntialTarget < entry <
\* IntialStopLoss.
C28_LevelsOrdered ==
    \A j \in 1..Len(trades) :
        /\ tstatus[CHOOSE k \in StatusesOf(j) : TRUE].EntryPrice = trades[j].Close
        /\ LevelsOrdered(trades[j])

\* A Bullish and a Bearish trade are stored, each with its levels ordered
\* around its entry.
C28_BothDirectionsOrdered ==
    \E a, b \in 1..Len(trades) :
        /\ trades[a].Direction = "Bullish" /\ LevelsOrdered(trades[a])
        /\ trades[b].Direction = "Bearish" /\ LevelsOrdered(trades[b])

\* ------------------------------------------------- writes and commits
\* A stage's run on one connection: the stores <<gaps, retests, trades,
\* tstatus>> the connection sees after each of its INSERT/UPDATE statements,
\* in order (writes), and the numbers of the statements that are followed by
\* conn.commit() (commits).  sqlite3 opens a transaction at the first
\* statement that writes; what is not committed when the connection goes
\* away is rolled back.

\* The INSERT statements of the insert loop.
RECURSIVE InsertWrites(_, _)
InsertWrites(rows, fvgs) ==
    IF fvgs = << >> THEN << >>
    ELSE IF FvgExists(rows, Head(fvgs)) THEN InsertWrites(rows, Tail(fvgs))
    ELSE << Append(rows, Head(fvgs)) >>
             \o InsertWrites(Append(rows, Head(fvgs)), Tail(fvgs))

\* The UPDATE statements of the aging loop from row k of existing_fvgs on:
\* Duration, then for a filled gap IsActive = 0 and its retests' IsActive = 0
\* (the statement that raises when the file holds no table RetestGap: the
\* run ends before it).
RECURSIVE AgeWrites(_, _, _, _, _, _, _, _)
AgeWrites(existing, k, g, r, symbol, tf, recent_close, t) ==
    IF k > Len(existing) THEN << >>
    ELSE IF ~ Aged(existing, k, symbol, tf)
    THEN AgeWrites(existing, k + 1, g, r, symbol, tf, recent_close, t)
    ELSE LET g1 == [g EXCEPT ![k].Duration = RoundedDuration(t, existing[k].ActiveTime, tf)]
         IN  IF Filled(existing[k], recent_close)
             THEN LET g2 == [g1 EXCEPT ![k].IsActive = 0]
                      r2 == [j \in 1..Len(r) |->
                                IF r[j].FairValueGap = k THEN [r[j] EXCEPT !.IsActive = 0]
                                ELSE r[j]]
                  IN  IF "RetestGap" \notin tables
                      THEN << <<g1, r>>, <<g2, r>> >>
                      ELSE << <<g1, r>>, <<g2, r>>, <<g2, r2>> >>
                             \o AgeWrites(existing, k + 1, g2, r2, symbol, tf, recent_close, t)
             ELSE << <<g1, r>> >>
                        \o AgeWrites(existing, k + 1, g1, r, symbol, tf, recent_close, t)

\* update_fvg_table: the inserts, the aging loop, one commit at the end of a
\* run that did not raise.
FvgWrites(ins, age) ==
    [i \in 1..Len(ins) |-> <<ins[i], retests, trades, tstatus>>]
        \o [i \in 1..Len(age) |-> <<age[i][1], age[i][2], trades, tstatus>>]

FvgRunOf(writes, raises) ==
    [writes |-> writes, commits |-> IF raises THEN {} ELSE { Len(writes) }]

FvgRunOn(symbol, tf, recent_close, fvgs, t, raises) ==
    FvgRunOf(FvgWrites(InsertWrites(gaps, fvgs),
                       AgeWrites(gaps, 1, InsertNew(gaps, fvgs), retests, symbol, tf,
                                 recent_close, t)),
             raises)

FvgRun(symbol, tf, ohlc, t) ==
    FvgRunOn(symbol, tf, LastClose(add_vwap(ohlc)), new_fvgs(add_vwap(ohlc), symbol, tf), t,
             FvgRaises(symbol, tf, ohlc))

\* check_and_insert_retest_gaps: UPDATE FairValueGaps and INSERT INTO
\* RetestGap, commit; then Step 6's UPDATE RetestGap with its own commit when
\* the gap reads back inactive.
RetestRun(symbol, df_1m) ==
    IF RetestCandidates(gaps) = {} \/ df_1m = << >>
    THEN [writes |-> << >>, commits |-> {}]
    ELSE LET fvg_id == FetchCandidate(gaps)
             fvg == gaps[fvg_id]
             latest_row == LatestRow(df_1m)
             marked == [gaps EXCEPT ![fvg_id].IsRetested = 1]
             added == Append(retests, NewRetest(fvg_id, fvg, latest_row))
         IN  IF RetestDetected(fvg, latest_row)
             THEN IF marked[fvg_id].IsActive = 0
                  THEN [writes |-> << <<marked, retests, trades, tstatus>>,
                                      <<marked, added, trades, tstatus>>,
                                      <<marked, DeactivateRetestsOf(added, marked, fvg_id),
                                        trades, tstatus>> >>,
                        commits |-> { 2, 3 }]
                  ELSE [writes |-> << <<marked, retests, trades, tstatus>>,
                                      <<marked, added, trades, tstatus>> >>,
                        commits |-> { 2 }]
             ELSE IF fvg.IsActive = 0
                  THEN [writes |-> << <<gaps, DeactivateRetestsOf(retests, gaps, fvg_id),
                                        trades, tstatus>> >>,
                        commits |-> { 1 }]
                  ELSE [writes |-> << >>, commits |-> {}]

\* trigger_trade for the retest it selects: INSERT INTO Trades, INSERT INTO
\* TradeStatus, UPDATE RetestGap, one commit at the end.
TriggerWrites(t1, s1, r1) ==
    [writes |-> << <<gaps, retests, t1, tstatus>>,
                   <<gaps, retests, t1, s1>>,
                   <<gaps, r1, t1, s1>> >>,
     commits |-> { 3 }]

TriggerRun(symbol, df_1m, retest_id) ==
    LET latest_candle == df_1m[Len(df_1m)]
        rg == retests[retest_id]
        result == FetchFvg(gaps, rg.FairValueGap)
    IN  IF TradeTriggered(rg, latest_candle.Close) /\ result # << >>
        THEN TriggerWrites(
                 Append(trades, NewTrade(symbol, retest_id, rg, result[1], latest_candle)),
                 Append(tstatus, NewTradeStatus(symbol, Len(trades) + 1, latest_candle)),
                 [retests EXCEPT ![retest_id].IsTraded = 1])
        ELSE [writes |-> << >>, commits |-> {}]

\* The UPDATE statements of the loop over active_trades from row k on:
\* TradeStatus, then Trades, for each row the exit logic updates.
RECURSIVE StatusWrites(_, _, _, _, _)
StatusWrites(k, ts, tr, symbol, recent_close) ==
    IF k > Len(tstatus) THEN << >>
    ELSE IF ~ ActiveTrade(k, symbol)
    THEN StatusWrites(k + 1, ts, tr, symbol, recent_close)
    ELSE LET j == tstatus[k].Trade
             x == ExitLogic(tstatus[k], trades[j], recent_close)
             ts1 == [ts EXCEPT ![k] = WriteTradeStatus(ts[k], x)]
             tr1 == [tr EXCEPT ![j] = WriteTrade(tr[j], x)]
         IN  IF x.updated
             THEN << <<ts1, tr>>, <<ts1, tr1>> >>
                    \o StatusWrites(k + 1, ts1, tr1, symbol, recent_close)
             ELSE StatusWrites(k + 1, ts, tr, symbol, recent_close)

\* update_trade_status: the loop's updates, one commit at the end.
StatusRun(df_1m, symbol) ==
    IF df_1m = << >> THEN [writes |-> << >>, commits |-> {}]
    ELSE LET w == StatusWrites(1, tstatus, trades, symbol, df_1m[Len(df_1m)].Close)
             writes == [i \in 1..Len(w) |-> <<gaps, retests, w[i][2], w[i][1]>>]
         IN  [writes |-> writes, commits |-> { Len(writes) }]

\* Variant of the persisted store for a connection in autocommit mode
\* (isolation_level=None): every statement is durable at once.
PersistedAutocommit(start, run, i) == IF i = 0 THEN start ELSE run.writes[i]

\* The persisted store when a run that started on store `start` goes away
\* after its i-th statement, before the commit that follows it: the store as
\* of the last commit executed.
PersistedAt(start, run, i) ==
    LET done == { c \in run.commits : c < i }
    IN  IF done = {} THEN start
        ELSE run.writes[CHOOSE c \in done : \A d \in done : d <= c]

\* The process goes away (it is killed, or a statement raises) in the middle
\* of a stage, after the stage's i-th statement: the store is what was
\* committed, and cycle.first keeps what the connection saw.  The tables the
\* stage creates are created before its first statement that writes a row.
CutAt(run, i) ==
    LET persisted == PersistedAt(db, run, i)
    IN  /\ gaps' = persisted[1]
        /\ retests' = persisted[2]
        /\ trades' = persisted[3]
        /\ tstatus' = persisted[4]
        /\ cycle' = [cycle EXCEPT !.pc = "cut", !.first = run.writes[i]]
        /\ UNCHANGED <<now, feed_1m>>

FvgCut ==
    /\ cycle.pc # "cut"
    /\ now % TimeFrame5m = 0
    /\ tables' = tables \cup { "FairValueGaps" }
    /\ \E ohlc \in Series5m(now) :
          /\ Len(InsertNew(gaps, DetectedIn(ohlc))) <= MaxGaps
          /\ \E run \in { FvgRun(BotSymbol, TimeFrame5m, ohlc, now) } :
                \E i \in 1..Len(run.writes) : CutAt(run, i)

RetestCut ==
    /\ cycle.pc # "cut"
    /\ tables' = tables \cup { "RetestGap" }
    /\ \E run \in { RetestRun(BotSymbol, feed_1m) } :
          \E i \in 1..Len(run.writes) : CutAt(run, i)

TriggerCut ==
    /\ cycle.pc # "cut"
    /\ ~ TriggerRaises(feed_1m)
    /\ feed_1m # << >>
    /\ tables' = tables \cup { "Trades", "TradeStatus" }
    /\ \E retest_id \in LatestUntraded(retests) :
          \E run \in { TriggerRun(BotSymbol, feed_1m, retest_id) } :
              \E i \in 1..Len(run.writes) : CutAt(run, i)

StatusCut ==
    /\ cycle.pc # "cut"
    /\ ~ StatusRaises(feed_1m)
    /\ UNCHANGED tables
    /\ \E run \in { StatusRun(feed_1m, BotSymbol) } :
          \E i \in 1..Len(run.writes) : CutAt(run, i)

\* The stages in any order, as in Spec, each either running to its end or
\* cut short; nothing runs after a cut.
NextCut ==
    \/ cycle.pc # "cut" /\ Next
    \/ FvgCut
    \/ RetestCut
    \/ TriggerCut
    \/ StatusCut

SpecCut == Init /\ [][NextCut]_vars

\* The four partial effects, as predicates of a store <<gaps, retests,
\* trades, tstatus>>.
GapOffRetestOn(st) ==
    \E j \in 1..Len(st[2]) :
        /\ st[2][j].IsActive = 1
        /\ st[2][j].FairValueGap \in 1..Len(st[1])
        /\ st[1][st[2][j].FairValueGap].IsActive = 0

RetestedWithoutRetest(st) ==
    \E k \in 1..Len(st[1]) :
        /\ st[1][k].IsRetested = 1
        /\ \A j \in 1..Len(st[2]) : st[2][j].FairValueGap # k

TradeWithoutStatusOrMark(st) ==
    \E i \in 1..Len(st[3]) :
        \/ \A k \in 1..Len(st[4]) : st[4][k].Trade # i
        \/ st[2][st[3][i].RetestGap].IsTraded # 1

StatusAheadOfTrade(st) ==
    \E k \in 1..Len(st[4]) :
        \/ st[3][st[4][k].Trade].IsActive # st[4][k].IsOpen
        \/ (st[4][k].Status = "Running") # (st[3][st[4][k].Trade].RemainingLot = Lot)

PartialEffect(st) ==
    \/ GapOffRetestOn(st)
    \/ RetestedWithoutRetest(st)
    \/ TradeWithoutStatusOrMark(st)
    \/ StatusAheadOfTrade(st)

\* C29: a stage that goes away before its commit leaves the persisted store
\* exactly as it was when the stage began, and no persisted store, after a
\* complete stage or after an interrupted one, shows a deactivated gap with
\* a still-active retest, a gap marked IsRetested = 1 without its retest, a
\* trade without its TradeStatus row or without IsTraded = 1 on its retest,
\* or a TradeStatus row updated without its Trades row.
C29_StagesAllOrNothing ==
    /\ [] ~ PartialEffect(db)
    /\ [][cycle'.pc = "cut" => db' = db]_vars

\* A stage was cut after a statement that left one of the partial effects in
\* the connection's own view, and the persisted store has none of it.
C29_CutInsideStage ==
    /\ cycle.pc = "cut"
    /\ PartialEffect(cycle.first)
    /\ cycle.first # db

\* ------------------------------------------- retest and trade, one candle
\* The retest rows created from the candle of the frame as the frame shows
\* it.
CreatedThisCandle ==
    { j \in 1..Len(retests) :
        /\ feed_1m # << >>
        /\ retests[j].OpenTime = LatestRow(feed_1m).OpenTime
        /\ retests[j].High = LatestRow(feed_1m).High
        /\ retests[j].Low = LatestRow(feed_1m).Low }

\* The retest rows created since the loop body fetched df_1m.
CreatedThisCycle ==
    IF cycle.pc \in { "retest", "trade", "status", "done" }
    THEN (cycle.seen[1] + 1)..Len(retests)
    ELSE {}

C30_EntryCandleLater ==
    \A i \in 1..Len(trades) :
        trades[i].EntryCandle > retests[trades[i].RetestGap].OpenTime

\* A trade has been opened on the candle its retest was created from, by a
\* loop body that was given a later sight of that candle.
C30_TradedOnLaterSight ==
    \E i \in 1..Len(trades) :
        /\ trades[i].EntryCandle = retests[trades[i].RetestGap].OpenTime
        /\ trades[i].High > retests[trades[i].RetestGap].High

\* ------------------------------------- one transition per status update
\* The statuses one pass of the exit logic can give a position that had
\* status st.
OneTransition(st) ==
    IF st = "Running" THEN { "Running", "SL", "PartialBooked" }
    ELSE IF st = "PartialBooked" THEN { "PartialBooked", "CostToCost", "FullBooked" }
    ELSE { st }

\* The positions whose trade was opened since the loop body fetched df_1m.
OpenedThisCycle ==
    { k \in 1..Len(tstatus) : tstatus[k].Trade > cycle.seen[2] }

\* The latest close meets the FullBooked or the CostToCost condition of the
\* position k.
TerminalConditionMet(k) ==
    LET tr == trades[tstatus[k].Trade]
    IN  /\ feed_1m # << >>
        /\ IF tr.Direction = "Bullish"
           THEN FeedClose < tr.ModifiedStopLoss \/ FeedClose >= tr.ModifiedTarget
           ELSE FeedClose > tr.ModifiedStopLoss \/ FeedClose <= tr.ModifiedTarget

\* Every step changes a position's status by at most one transition, and a
\* position that becomes PartialBooked is then open with half its lot left.
C31_OneTransitionPerStep ==
    [][\A k \in 1..Len(tstatus) :
          /\ tstatus'[k].Status \in OneTransition(tstatus[k].Status)
          /\ ( tstatus[k].Status = "Running" /\ tstatus'[k].Status = "PartialBooked" ) =>
                /\ tstatus'[k].IsOpen = 1
                /\ trades'[tstatus'[k].Trade].RemainingLot = Lot \div 2
                /\ trades'[tstatus'[k].Trade].IsActive = 1]_vars

\* When the first run of the loop body in a minute has ended, the positions
\* of the trades opened in it are open and Running.
C31_OpenedThisCycleStillOpen ==
    ( cycle.pc = "done" /\ cycle.pass = 1 ) =>
        \A k \in OpenedThisCycle :
            tstatus[k].IsOpen = 1 /\ tstatus[k].Status = "Running"

\* C31: one call of update_trade_status moves each open position by at most
\* one transition (a position that enters PartialBooked ends the call
\* PartialBooked, open, with half its lot), and a trade opened by
\* trigger_trade is not closed by the update_trade_status call of the same
\* cycle.
C31_OneTransitionPerCall ==
    /\ C31_OneTransitionPerStep
    /\ [] C31_OpenedThisCycleStillOpen

\* A cycle has ended in which a position opened by an earlier loop body entered
\* PartialBooked on a close that also meets its FullBooked condition, and it
\* is still PartialBooked and open with half its lot.
C31_PartialOnTerminalClose ==
    /\ cycle.pc = "done"
    /\ cycle.pass = 1
    /\ \E k \in 1..Len(tstatus) :
          /\ tstatus[k].Trade <= cycle.seen[2]
          /\ tstatus[k].Status = "PartialBooked"
          /\ tstatus[k].IsOpen = 1
          /\ trades[tstatus[k].Trade].RemainingLot = Lot \div 2
          /\ TerminalConditionMet(k)

====
